---- MODULE Spec2Model ----
(***************************************************************************)
(* AttentionScreen: the display surface (src/main.ts) with its countdown   *)
(* timer engine, and the control surface's publisher (src/settings.ts).    *)
(* Times are milliseconds, as in the source.                               *)
(***************************************************************************)
EXTENDS Integers, Sequences, FiniteSets, TLC

VARIABLES
    \* ---- display surface (src/src/main.ts) ----
    configuredTimerMode,   \* let configuredTimerMode
    configuredDurationMs,  \* let configuredDurationMs
    timerInterval,         \* let timerInterval (handle or Null)
    remainingMs,           \* let remainingMs
    activeIntervals,       \* the window's live setInterval handles
    lastTick,              \* handle -> lastTick.t of that interval's closure
    timerUrgent,           \* class "timer-urgent" on #timerDisplay
    displayText,           \* #timerDisplay textContent
    displayShown,          \* #timerDisplay not [hidden] / .wrap.timer-visible
    theme,                 \* CSS slots and title / subtitle elements
    listening,             \* DOMContentLoaded ran: listeners are registered
    \* ---- environment ----
    now,                   \* Date.now()
    store,                 \* localStorage (key -> string, absent keys absent)
    lastOp,                \* history: the handler that ran last and what it saw
    \* ---- control surface (src/settings.ts, DOMContentLoaded closure) ----
    ctlReady,              \* DOMContentLoaded ran on the control surface
    fields,                \* the form controls: values and select options
    pendingTimer,          \* let pendingTimer (handle or Null)
    timeouts,              \* the window's pending setTimeout handles -> due
    lastSent,              \* let lastSent
    bus,                   \* every message emitted on the bus, in order
    lastPush,              \* history: what pushNow did in the last listener run
    userActs,              \* history: how many edits and clicks were made
    burst,                 \* history: queuePush calls merged into one push
    lastCtl,               \* history: what the last listener run emitted
    faults,                \* environment: localStorage / the bus are failing
    opsReady,              \* the Show / Blank / Flash buttons are wired
    \* ---- flash: display body classes, control Flash button ----
    bodyMode,              \* body class "mode-blank" / "mode-message" / none
    modeFlash,             \* body class "mode-flash"
    flashTimeouts,         \* display: pending flash() timeouts -> due
    flashedAt,             \* history: when attention:flash was last received
    flashDisabled,         \* btnFlash.disabled
    opsState,              \* the ops pill: "live" / "blank" / "flash"
    cooldowns,             \* control: pending btnFlash timeouts -> due
    flashSentAt,           \* history: when attention:flash was last emitted
    flashGap,              \* history: time between the last two emissions
    \* ---- settings window (src/src/main.ts, openSettingsWindow) ----
    settingsWin,           \* let settingsWin (window object or Null)
    winObjs,               \* the WebviewWindow objects constructed so far
    liveWins,              \* the objects whose window exists in the backend
    calls,                 \* openSettingsWindow invocations: where each is
    lastWin,               \* history: the last call made on a window object
    \* ---- the bus, seen from the display surface ----
    delivered,             \* indices of the bus messages handed to listeners
    \* ---- E2E-1 scenario ----
    step,                  \* position of the scripted user
    \* ---- formatMs under test ----
    fmtIn, fmtOut

vars == <<configuredTimerMode, configuredDurationMs, timerInterval, remainingMs,
          activeIntervals, lastTick, timerUrgent, displayText, displayShown,
          theme, listening, now, store, lastOp, ctlReady, fields,
          pendingTimer, timeouts, lastSent, bus, lastPush, userActs, burst,
          lastCtl, faults, opsReady, bodyMode, modeFlash, flashTimeouts,
          flashedAt, flashDisabled, opsState, cooldowns, flashSentAt,
          flashGap, settingsWin, winObjs, liveWins, calls, lastWin,
          delivered, step, fmtIn, fmtOut>>

displayVars == <<configuredTimerMode, configuredDurationMs, timerInterval,
                 remainingMs, activeIntervals, lastTick, timerUrgent,
                 displayText, displayShown, theme, listening, lastOp>>

ctlVars == <<ctlReady, fields, pendingTimer, timeouts, lastSent, bus,
             lastPush, userActs, burst, lastCtl, faults, opsReady>>

\* display surface: body classes and the timeouts of flash()
attnVars == <<bodyMode, modeFlash, flashTimeouts, flashedAt>>

\* control surface: the Flash button and its cooldown
opsVars == <<flashDisabled, opsState, cooldowns, flashSentAt, flashGap>>

flashVars == <<attnVars, opsVars>>

winVars == <<settingsWin, winObjs, liveWins, calls, lastWin>>

fmtVars == <<fmtIn, fmtOut>>

(***************************************************************************)
(* Bounds of the model.                                                    *)
(***************************************************************************)
MaxNow == 2000
MaxFormatMs == 62000
MaxUserActs == 3
MaxCtlNow == 300
MaxFaults == 1
MaxFlashNow == 1800
MaxFlashes == 2
MaxOpens == 3

\* elapsed times the clock may advance by between two handlers
Deltas == {999, 1000}
\* elapsed times between two polls in the E2E-1 run
E2EDeltas == {90, 100, 105, 110}
\* elapsed times between two events on the control surface
CtlDeltas == {150}
\* elapsed times between two flash events
FlashDeltas == {300, 1500}

Null == 0
\* the time of an event that has not happened
Never == -1
URGENT_MS == 5 * 60 * 1000

Max(a, b) == IF a >= b THEN a ELSE b
Min(a, b) == IF a <= b THEN a ELSE b

(***************************************************************************)
(* String(n) for a non-negative integer, and Number(str) on such strings.  *)
(***************************************************************************)
Digits == <<"0", "1", "2", "3", "4", "5", "6", "7", "8", "9">>

RECURSIVE NumToString(_)
NumToString(n) ==
    IF n < 10 THEN Digits[n + 1]
    ELSE NumToString(n \div 10) \o Digits[(n % 10) + 1]

\* the values the control surface writes are clampInt'ed to 0..9999
StringToNum(str) == CHOOSE n \in 0..9999 : NumToString(n) = str

(***************************************************************************)
(* formatMs / pad2                                                         *)
(***************************************************************************)
pad2(n) ==
    LET str == NumToString(Max(0, n))
    IN  IF Len(str) < 2 THEN "0" \o str ELSE str

\* rounding down instead of up
CeilDiv1000_floor(ms) == ms \div 1000

\* Math.ceil(ms / 1000) on integers
CeilDiv1000(ms) == (ms + 999) \div 1000

formatMs(ms) ==
    LET totalSec == Max(0, CeilDiv1000(ms))
        m == totalSec \div 60
        s == totalSec % 60
    IN  pad2(m) \o ":" \o pad2(s)

(***************************************************************************)
(* The display surface's state as one record, so that a handler that calls *)
(* other handlers in sequence is the composition of their effects.         *)
(***************************************************************************)
D == [configuredTimerMode  |-> configuredTimerMode,
      configuredDurationMs |-> configuredDurationMs,
      timerInterval        |-> timerInterval,
      remainingMs          |-> remainingMs,
      activeIntervals      |-> activeIntervals,
      lastTick             |-> lastTick,
      timerUrgent          |-> timerUrgent,
      displayText          |-> displayText,
      displayShown         |-> displayShown,
      theme                |-> theme]

SetD(e) ==
    /\ configuredTimerMode' = e.configuredTimerMode
    /\ configuredDurationMs' = e.configuredDurationMs
    /\ timerInterval' = e.timerInterval
    /\ remainingMs' = e.remainingMs
    /\ activeIntervals' = e.activeIntervals
    /\ lastTick' = e.lastTick
    /\ timerUrgent' = e.timerUrgent
    /\ displayText' = e.displayText
    /\ displayShown' = e.displayShown
    /\ theme' = e.theme

\* colour values that are literal "#rrggbb" rather than token keys
HexColors == {"#008EAA"}

setThemeSlot(value) ==
    IF value \in HexColors THEN value ELSE "var(--pcc-" \o value \o ")"

\* subtitle.trim().length === 0
IsBlank(str) == str \in {"", " "}

setTextContent(e, title, subtitle) ==
    [e EXCEPT !.theme.title = title,
              !.theme.subtitle = subtitle,
              !.theme.subtitleHidden = IsBlank(subtitle)]

setUrgent(e, isUrgent) == [e EXCEPT !.timerUrgent = isUrgent]

syncUrgentClass(e) ==
    setUrgent(e, /\ e.configuredTimerMode = "countdown"
                 /\ e.remainingMs > 0
                 /\ e.remainingMs <= URGENT_MS)

\* window.clearInterval(h): the handle stops firing and its closure is dropped
clearInterval(e, h) ==
    [e EXCEPT !.activeIntervals = @ \ {h},
              !.lastTick = [i \in (DOMAIN @) \ {h} |-> @[i]]]

\* stopInterval that clears the interval but keeps the stale handle
stopInterval_keepsHandle(e) ==
    IF e.timerInterval # Null THEN clearInterval(e, e.timerInterval) ELSE e

stopInterval(e) ==
    IF e.timerInterval # Null
    THEN [clearInterval(e, e.timerInterval) EXCEPT !.timerInterval = Null]
    ELSE e

setDisplay(e, text, show) ==
    [e EXCEPT !.displayText = text, !.displayShown = show]

\* window.setInterval returns a handle different from every live one
FreshHandle(live) ==
    CHOOSE h \in 1..(Cardinality(live) + 1) :
        h \notin live /\ \A g \in 1..(h - 1) : g \in live

\* window.setInterval(callback, 100) with the closure's lastTick = { t }
setInterval(e, t) ==
    LET h == FreshHandle(e.activeIntervals)
    IN  [e EXCEPT !.timerInterval = h,
                  !.activeIntervals = @ \cup {h},
                  !.lastTick = [i \in (DOMAIN @) \cup {h} |->
                                    IF i = h THEN t ELSE @[i]]]

\* startCountdown that schedules a poll without cancelling the previous one
startCountdown_noStop(e, t) ==
    IF e.configuredTimerMode # "countdown" THEN e
    ELSE LET e1 == IF e.remainingMs <= 0
                   THEN [e EXCEPT !.remainingMs = e.configuredDurationMs]
                   ELSE e
         IN  IF e1.remainingMs <= 0 THEN e1
             ELSE setInterval(
                      setDisplay(e1, formatMs(e1.remainingMs), TRUE), t)

\* startCountdown that starts the scheduler even when nothing remains
startCountdown_noZeroGuard(e, t) ==
    IF e.configuredTimerMode # "countdown" THEN e
    ELSE LET e1 == IF e.remainingMs <= 0
                   THEN [e EXCEPT !.remainingMs = e.configuredDurationMs]
                   ELSE e
         IN  setInterval(
                 stopInterval(
                     setDisplay(e1, formatMs(e1.remainingMs), TRUE)), t)

\* startCountdown that always starts from the configured duration
startCountdown_refills(e, t) ==
    IF e.configuredTimerMode # "countdown" THEN e
    ELSE LET e1 == [e EXCEPT !.remainingMs = e.configuredDurationMs]
         IN  IF e1.remainingMs <= 0 THEN e1
             ELSE setInterval(
                      stopInterval(
                          setDisplay(e1, formatMs(e1.remainingMs), TRUE)), t)

\* startCountdown that hands the previous closure's lastTick.t to the new one
startCountdown_keepsAnchor(e, t) ==
    IF e.configuredTimerMode # "countdown" THEN e
    ELSE LET e1 == IF e.remainingMs <= 0
                   THEN [e EXCEPT !.remainingMs = e.configuredDurationMs]
                   ELSE e
             t0 == IF e.timerInterval \in DOMAIN e.lastTick
                   THEN e.lastTick[e.timerInterval] ELSE t
         IN  IF e1.remainingMs <= 0 THEN e1
             ELSE setInterval(
                      stopInterval(
                          setDisplay(e1, formatMs(e1.remainingMs), TRUE)), t0)

startCountdown(e, t) ==
    IF e.configuredTimerMode # "countdown" THEN e
    ELSE LET e1 == IF e.remainingMs <= 0
                   THEN [e EXCEPT !.remainingMs = e.configuredDurationMs]
                   ELSE e
         IN  IF e1.remainingMs <= 0 THEN e1
             ELSE setInterval(
                      stopInterval(
                          setDisplay(e1, formatMs(e1.remainingMs), TRUE)), t)

\* interval callback that assumes every poll is exactly 100ms late
intervalCallback_fixedStep(e, h, t) ==
    LET e1 == [e EXCEPT !.lastTick[h] = t, !.remainingMs = @ - 100]
    IN  IF e1.remainingMs <= 0
        THEN setUrgent(
                 stopInterval(
                     setDisplay([e1 EXCEPT !.remainingMs = 0], "00:00", TRUE)),
                 FALSE)
        ELSE syncUrgentClass(setDisplay(e1, formatMs(e1.remainingMs), TRUE))

\* interval callback that does not clear the urgent class at expiry
intervalCallback_keepsUrgent(e, h, t) ==
    LET dt == t - e.lastTick[h]
        e1 == [e EXCEPT !.lastTick[h] = t, !.remainingMs = @ - dt]
    IN  IF e1.remainingMs <= 0
        THEN stopInterval(
                 setDisplay([e1 EXCEPT !.remainingMs = 0], "00:00", TRUE))
        ELSE syncUrgentClass(setDisplay(e1, formatMs(e1.remainingMs), TRUE))

\* interval callback that keeps polling after the countdown reached 0
intervalCallback_noStop(e, h, t) ==
    LET dt == t - e.lastTick[h]
        e1 == [e EXCEPT !.lastTick[h] = t, !.remainingMs = @ - dt]
    IN  IF e1.remainingMs <= 0
        THEN setUrgent(
                 setDisplay([e1 EXCEPT !.remainingMs = 0], "00:00", TRUE),
                 FALSE)
        ELSE syncUrgentClass(setDisplay(e1, formatMs(e1.remainingMs), TRUE))

\* the callback handed to setInterval by startCountdown, for handle h
intervalCallback(e, h, t) ==
    LET dt == t - e.lastTick[h]
        e1 == [e EXCEPT !.lastTick[h] = t, !.remainingMs = @ - dt]
    IN  IF e1.remainingMs <= 0
        THEN setUrgent(
                 stopInterval(
                     setDisplay([e1 EXCEPT !.remainingMs = 0], "00:00", TRUE)),
                 FALSE)
        ELSE syncUrgentClass(setDisplay(e1, formatMs(e1.remainingMs), TRUE))

\* pauseCountdown that also discards what remains
pauseCountdown_clears(e) ==
    LET e1 == [stopInterval(e) EXCEPT !.remainingMs = 0]
    IN  syncUrgentClass(
            setDisplay(e1, formatMs(e1.remainingMs), e1.remainingMs > 0))

pauseCountdown(e) ==
    LET e1 == stopInterval(e)
    IN  syncUrgentClass(
            setDisplay(e1, formatMs(e1.remainingMs), e1.remainingMs > 0))

\* resetCountdown that forgets to cancel the scheduler
resetCountdown_noStop(e) ==
    LET e1 == [e EXCEPT !.remainingMs = e.configuredDurationMs]
        e2 == IF e1.configuredTimerMode = "countdown" /\ e1.remainingMs > 0
              THEN setDisplay(e1, formatMs(e1.remainingMs), TRUE)
              ELSE setDisplay(e1, "00:00", FALSE)
    IN  syncUrgentClass(e2)

\* resetCountdown that shows the display whatever the mode is
resetCountdown_anyMode(e) ==
    LET e1 == [stopInterval(e) EXCEPT !.remainingMs = e.configuredDurationMs]
        e2 == IF e1.remainingMs > 0
              THEN setDisplay(e1, formatMs(e1.remainingMs), TRUE)
              ELSE setDisplay(e1, "00:00", FALSE)
    IN  syncUrgentClass(e2)

resetCountdown(e) ==
    LET e1 == [stopInterval(e) EXCEPT !.remainingMs = e.configuredDurationMs]
        e2 == IF e1.configuredTimerMode = "countdown" /\ e1.remainingMs > 0
              THEN setDisplay(e1, formatMs(e1.remainingMs), TRUE)
              ELSE setDisplay(e1, "00:00", FALSE)
    IN  syncUrgentClass(e2)

\* setTimerMode that leaves the urgent class alone when switching off
setTimerMode_keepsUrgent(e, mode) ==
    IF mode = "off"
    THEN setDisplay([stopInterval(e) EXCEPT !.remainingMs = 0], "00:00", FALSE)
    ELSE IF e.timerInterval = Null
         THEN LET e1 == IF e.remainingMs <= 0
                        THEN [e EXCEPT !.remainingMs = e.configuredDurationMs]
                        ELSE e
              IN  IF e1.remainingMs > 0
                  THEN setDisplay(e1, formatMs(e1.remainingMs), TRUE)
                  ELSE setDisplay(e1, "00:00", FALSE)
         ELSE e

\* setTimerMode that restarts the countdown whenever countdown mode is set
setTimerMode_resets(e, mode) ==
    IF mode = "off"
    THEN setUrgent(
             setDisplay([stopInterval(e) EXCEPT !.remainingMs = 0],
                        "00:00", FALSE),
             FALSE)
    ELSE resetCountdown(e)

\* setTimerMode that never loads the configured duration
setTimerMode_noRefill(e, mode) ==
    IF mode = "off"
    THEN setUrgent(
             setDisplay([stopInterval(e) EXCEPT !.remainingMs = 0],
                        "00:00", FALSE),
             FALSE)
    ELSE IF e.timerInterval = Null
         THEN IF e.remainingMs > 0
              THEN setDisplay(e, formatMs(e.remainingMs), TRUE)
              ELSE setDisplay(e, "00:00", FALSE)
         ELSE e

setTimerMode(e, mode) ==
    IF mode = "off"
    THEN setUrgent(
             setDisplay([stopInterval(e) EXCEPT !.remainingMs = 0],
                        "00:00", FALSE),
             FALSE)
    ELSE IF e.timerInterval = Null
         THEN LET e1 == IF e.remainingMs <= 0
                        THEN [e EXCEPT !.remainingMs = e.configuredDurationMs]
                        ELSE e
              IN  IF e1.remainingMs > 0
                  THEN setDisplay(e1, formatMs(e1.remainingMs), TRUE)
                  ELSE setDisplay(e1, "00:00", FALSE)
         ELSE e

\* newDurationMs of applySettings
durationOf(s) ==
    Max(0, (s.timerMin * 60 + Min(59, Max(0, s.timerSec))) * 1000)

\* applySettings that calls setTimerMode only when the mode changed
applySettings_modeOnChange(e, s) ==
    LET e1 == [e EXCEPT !.theme.appBg = setThemeSlot(s.bg),
                        !.theme.appText = setThemeSlot(s.text),
                        !.theme.subtitleColor = setThemeSlot(s.subtitleColor)]
        e2 == setTextContent(e1, s.titleText, s.subtitleText)
        newMode == s.timerMode
        newDurationMs == durationOf(s)
        modeChanged == newMode # e.configuredTimerMode
        durationChanged == newDurationMs # e.configuredDurationMs
        e3 == [e2 EXCEPT !.configuredTimerMode = newMode,
                         !.configuredDurationMs = newDurationMs]
        e4 == IF modeChanged THEN setTimerMode(e3, e3.configuredTimerMode)
              ELSE e3
    IN  IF e4.configuredTimerMode = "countdown"
           /\ (modeChanged \/ durationChanged)
        THEN resetCountdown(e4)
        ELSE e4

\* applySettings that resets the countdown only when the mode changed
applySettings_resetOnMode(e, s) ==
    LET e1 == [e EXCEPT !.theme.appBg = setThemeSlot(s.bg),
                        !.theme.appText = setThemeSlot(s.text),
                        !.theme.subtitleColor = setThemeSlot(s.subtitleColor)]
        e2 == setTextContent(e1, s.titleText, s.subtitleText)
        newMode == s.timerMode
        newDurationMs == durationOf(s)
        modeChanged == newMode # e.configuredTimerMode
        e3 == [e2 EXCEPT !.configuredTimerMode = newMode,
                         !.configuredDurationMs = newDurationMs]
        e4 == setTimerMode(e3, e3.configuredTimerMode)
    IN  IF e4.configuredTimerMode = "countdown" /\ modeChanged
        THEN resetCountdown(e4)
        ELSE e4

\* applySettings that resets the countdown on every countdown snapshot
applySettings_alwaysReset(e, s) ==
    LET e1 == [e EXCEPT !.theme.appBg = setThemeSlot(s.bg),
                        !.theme.appText = setThemeSlot(s.text),
                        !.theme.subtitleColor = setThemeSlot(s.subtitleColor)]
        e2 == setTextContent(e1, s.titleText, s.subtitleText)
        e3 == [e2 EXCEPT !.configuredTimerMode = s.timerMode,
                         !.configuredDurationMs = durationOf(s)]
        e4 == setTimerMode(e3, e3.configuredTimerMode)
    IN  IF e4.configuredTimerMode = "countdown" THEN resetCountdown(e4)
        ELSE e4

applySettings(e, s) ==
    LET e1 == [e EXCEPT !.theme.appBg = setThemeSlot(s.bg),
                        !.theme.appText = setThemeSlot(s.text),
                        !.theme.subtitleColor = setThemeSlot(s.subtitleColor)]
        e2 == setTextContent(e1, s.titleText, s.subtitleText)
        newMode == s.timerMode
        newDurationMs == durationOf(s)
        modeChanged == newMode # e.configuredTimerMode
        durationChanged == newDurationMs # e.configuredDurationMs
        e3 == [e2 EXCEPT !.configuredTimerMode = newMode,
                         !.configuredDurationMs = newDurationMs]
        e4 == setTimerMode(e3, e3.configuredTimerMode)
    IN  IF e4.configuredTimerMode = "countdown"
           /\ (modeChanged \/ durationChanged)
        THEN resetCountdown(e4)
        ELSE e4

(***************************************************************************)
(* localStorage                                                            *)
(***************************************************************************)
\* localStorage.getItem(key) ?? dflt
getItemOr(st, key, dflt) == IF key \in DOMAIN st THEN st[key] ELSE dflt

\* readStoredSettings that never looks at the store
readStoredSettings_defaults(st) ==
    [bg |-> "turquoise", subtitleColor |-> "navy", text |-> "navy",
     titleText |-> "ATTENTION", subtitleText |-> "CHECK YOUR ZOOM CHAT",
     timerMode |-> "off", timerMin |-> 5, timerSec |-> 0]

\* readStoredSettings of the display surface
readStoredSettings(st) ==
    [bg            |-> getItemOr(st, "bg", "turquoise"),
     subtitleColor |-> getItemOr(st, "subtitleColor", "navy"),
     text          |-> getItemOr(st, "text", "navy"),
     titleText     |-> getItemOr(st, "titleText", "ATTENTION"),
     subtitleText  |-> getItemOr(st, "subtitleText", "CHECK YOUR ZOOM CHAT"),
     timerMode     |-> getItemOr(st, "timerMode", "off"),
     timerMin      |-> StringToNum(getItemOr(st, "timerMin", "5")),
     timerSec      |-> StringToNum(getItemOr(st, "timerSec", "0"))]

\* writeStoredSettings of the control surface
writeStoredSettings(st, s) ==
    [k \in DOMAIN st \cup {"bg", "text", "titleText", "subtitleText",
                           "subtitleColor", "timerMode", "timerMin",
                           "timerSec"} |->
        CASE k = "bg" -> s.bg
          [] k = "text" -> s.text
          [] k = "titleText" -> s.titleText
          [] k = "subtitleText" -> s.subtitleText
          [] k = "subtitleColor" -> s.subtitleColor
          [] k = "timerMode" -> s.timerMode
          [] k = "timerMin" -> NumToString(s.timerMin)
          [] k = "timerSec" -> NumToString(s.timerSec)
          [] OTHER -> st[k]]

EmptyStore == [k \in {} |-> ""]

(***************************************************************************)
(* Control surface (src/settings.ts): palette, form controls, publisher    *)
(***************************************************************************)
Range(seq) == {seq[i] : i \in 1..Len(seq)}

\* Object.keys(PCC)
PCCKeys ==
    <<"turquoise", "navy", "white", "purple", "apple-green", "seafoam-green",
      "dark-tan", "light-tan", "salmon-pink", "golden-yellow",
      "bright-yellow", "black">>

DarkBgTexts ==
    <<"turquoise", "white", "salmon-pink", "golden-yellow", "bright-yellow",
      "seafoam-green", "apple-green", "dark-tan", "light-tan">>

TEXT_ALLOWED_BY_BG ==
    [k \in Range(PCCKeys) |->
        CASE k \in {"seafoam-green", "apple-green", "light-tan",
                    "salmon-pink", "bright-yellow"} ->
                 <<"navy", "purple", "black">>
          [] k \in {"turquoise", "dark-tan"} ->
                 <<"navy", "white", "bright-yellow", "purple", "black">>
          [] k \in {"navy", "purple", "black"} -> DarkBgTexts
          [] k \in {"white", "golden-yellow"} ->
                 <<"turquoise", "navy", "purple", "dark-tan", "black">>]

\* TEXT_ALLOWED_BY_BG[bgKey] ?? Object.keys(PCC)
getAllowedTextKeys(bgKey) ==
    IF bgKey \in DOMAIN TEXT_ALLOWED_BY_BG THEN TEXT_ALLOWED_BY_BG[bgKey]
    ELSE PCCKeys

clampInt(n, min, max) == Min(max, Max(min, n))

\* a <select>: its option values and its value ("" when nothing is selected)
IsPCCKey(k) == k \in Range(PCCKeys)

\* fillSelect: the options are rebuilt and the first one becomes selected
fillSelect(keys) ==
    LET opts == SelectSeq(keys, IsPCCKey)
    IN  [options |-> opts, value |-> IF Len(opts) = 0 THEN "" ELSE opts[1]]

\* select.value = v
setValue(sel, v) ==
    [sel EXCEPT !.value = IF v \in Range(sel.options) THEN v ELSE ""]

\* the form before DOMContentLoaded
NoFields ==
    [bgSelect      |-> [options |-> <<>>, value |-> ""],
     textSelect    |-> [options |-> <<>>, value |-> ""],
     subtitleColor |-> [options |-> <<>>, value |-> ""],
     timerMode     |-> "off",
     timerMin      |-> "",
     timerSec      |-> "",
     titleInput    |-> "",
     subtitleInput |-> "",
     timerInputsHidden |-> TRUE,
     storedText    |-> ""]

rebuildTextSelect(f) ==
    LET allowed == getAllowedTextKeys(f.bgSelect.value)
        prev == IF f.textSelect.value # "" THEN f.textSelect.value
                ELSE f.storedText
        v == IF prev \in Range(allowed) THEN prev
             ELSE IF Len(allowed) > 0 THEN allowed[1] ELSE "navy"
    IN  [f EXCEPT !.textSelect = setValue(fillSelect(allowed), v)]

rebuildSubtitleSelect(f) ==
    [f EXCEPT !.subtitleColor = fillSelect(getAllowedTextKeys(f.bgSelect.value))]

\* readStoredSettings of the control surface
readStoredSettingsCtl(st) ==
    [bg            |-> getItemOr(st, "bg", "turquoise"),
     titleText     |-> getItemOr(st, "titleText", "ATTENTION"),
     text          |-> getItemOr(st, "text", "navy"),
     subtitleText  |-> getItemOr(st, "subtitleText", "CHECK YOUR ZOOM CHAT"),
     subtitleColor |-> getItemOr(st, "subtitleColor", "white"),
     timerMode     |-> getItemOr(st, "timerMode", "off"),
     timerMin      |-> StringToNum(getItemOr(st, "timerMin", "5")),
     timerSec      |-> StringToNum(getItemOr(st, "timerSec", "0"))]

\* Number(input.value || 0)
NumberOrZero(str) == IF str = "" THEN 0 ELSE StringToNum(str)

\* the AppSettings built by snapshotSettings
snapshotOf(f) ==
    [bg            |-> f.bgSelect.value,
     titleText     |-> f.titleInput,
     text          |-> f.textSelect.value,
     subtitleText  |-> f.subtitleInput,
     subtitleColor |-> f.subtitleColor.value,
     timerMode     |-> IF f.timerMode = "countdown" THEN "countdown" ELSE "off",
     timerMin      |-> clampInt(NumberOrZero(f.timerMin), 0, 9999),
     timerSec      |-> clampInt(NumberOrZero(f.timerSec), 0, 59)]

\* JSON.stringify(next)
JSONstringify(a) ==
    "{\"bg\":\"" \o a.bg
    \o "\",\"titleText\":\"" \o a.titleText
    \o "\",\"text\":\"" \o a.text
    \o "\",\"subtitleText\":\"" \o a.subtitleText
    \o "\",\"subtitleColor\":\"" \o a.subtitleColor
    \o "\",\"timerMode\":\"" \o a.timerMode
    \o "\",\"timerMin\":" \o NumToString(a.timerMin)
    \o ",\"timerSec\":" \o NumToString(a.timerSec) \o "}"

\* the control surface's state (with the store and the bus) as one record
C == [fields |-> fields, pendingTimer |-> pendingTimer, timeouts |-> timeouts,
      lastSent |-> lastSent, bus |-> bus, lastPush |-> "none",
      burst |-> burst, store |-> store, faults |-> faults]

SetC(c) ==
    \E r \in {c} :
        /\ fields' = r.fields
        /\ pendingTimer' = r.pendingTimer
        /\ timeouts' = r.timeouts
        /\ lastSent' = r.lastSent
        /\ bus' = r.bus
        /\ lastPush' = r.lastPush
        /\ burst' = r.burst
        /\ store' = r.store

\* emit(chan, payload).catch(console.error): the bus holds what was sent; a
\* failed send is lost and its rejection is only logged
emit(c, chan, payload) ==
    IF c.faults.bus THEN c
    ELSE [c EXCEPT !.bus = Append(@, [chan |-> chan, payload |-> payload])]

NoPayload == [none |-> TRUE]

\* snapshotSettings: builds next and writes the clamped numbers back
snapshotSettings(c) ==
    LET next == snapshotOf(c.fields)
    IN  [c EXCEPT !.fields.timerMin = NumToString(next.timerMin),
                  !.fields.timerSec = NumToString(next.timerSec)]

\* pushNow without the equality gate
pushNow_noGate(c) ==
    LET next == snapshotOf(c.fields)
        c1 == snapshotSettings(c)
        key == JSONstringify(next)
    IN  emit([c1 EXCEPT !.lastSent = key,
                        !.store = writeStoredSettings(@, next),
                        !.lastPush = "sent"],
             "settings:changed", next)

\* pushNow that publishes without persisting
pushNow_noPersist(c) ==
    LET next == snapshotOf(c.fields)
        c1 == snapshotSettings(c)
        key == JSONstringify(next)
    IN  IF key = c1.lastSent THEN [c1 EXCEPT !.lastPush = "suppressed"]
        ELSE emit([c1 EXCEPT !.lastSent = key, !.lastPush = "sent"],
                  "settings:changed", next)

\* pushNow; localStorage.setItem throwing ends it (and the listener that
\* called it) after lastSent was assigned
pushNow(c) ==
    LET next == snapshotOf(c.fields)
        c1 == snapshotSettings(c)
        key == JSONstringify(next)
    IN  IF key = c1.lastSent THEN [c1 EXCEPT !.lastPush = "suppressed"]
        ELSE IF c1.faults.store
        THEN [c1 EXCEPT !.lastSent = key, !.lastPush = "threw"]
        ELSE emit([c1 EXCEPT !.lastSent = key,
                             !.store = writeStoredSettings(@, next),
                             !.lastPush = "sent"],
                  "settings:changed", next)

\* window.clearTimeout(h)
clearTimeout(c, h) ==
    [c EXCEPT !.timeouts = [i \in (DOMAIN @) \ {h} |-> @[i]]]

\* queuePush that schedules its push without cancelling the pending one
queuePush_noCancel(c, delayMs, t) ==
    LET h == FreshHandle(DOMAIN c.timeouts)
    IN  [c EXCEPT !.pendingTimer = h,
                  !.burst = (IF c.pendingTimer # Null THEN @ ELSE 0) + 1,
                  !.timeouts = [i \in (DOMAIN @) \cup {h} |->
                                   IF i = h THEN t + delayMs ELSE @[i]]]

\* queuePush(delayMs) called at time t
queuePush(c, delayMs, t) ==
    LET c1 == IF c.pendingTimer # Null THEN clearTimeout(c, c.pendingTimer)
              ELSE c
        h == FreshHandle(DOMAIN c1.timeouts)
    IN  [c1 EXCEPT !.pendingTimer = h,
                   !.burst = (IF c.pendingTimer # Null THEN @ ELSE 0) + 1,
                   !.timeouts = [i \in (DOMAIN @) \cup {h} |->
                                    IF i = h THEN t + delayMs ELSE @[i]]]

\* the callback queuePush hands to setTimeout, when handle h fires
pushTimeout(c, h) ==
    pushNow([clearTimeout(c, h) EXCEPT !.pendingTimer = Null])

\* bgSelect "change" listener (it dispatches "change" on the two other
\* selects when the rebuild moved their value)
bgChange(c, t) ==
    LET prevText == c.fields.textSelect.value
        prevSubColor == c.fields.subtitleColor.value
        c1 == [c EXCEPT !.fields = rebuildSubtitleSelect(rebuildTextSelect(@))]
        c2 == IF c1.fields.textSelect.value # prevText
              THEN queuePush(c1, 0, t) ELSE c1
        c3 == IF c2.fields.subtitleColor.value # prevSubColor
              THEN queuePush(c2, 0, t) ELSE c2
    IN  queuePush(c3, 0, t)

\* swapBtn "click" listener
swapClick(c, t) ==
    LET oldBg == c.fields.bgSelect.value
        oldText == c.fields.textSelect.value
        oldSubtitleColor == c.fields.subtitleColor.value
        f1 == [c.fields EXCEPT !.bgSelect = setValue(@, oldText)]
        f2 == rebuildSubtitleSelect(rebuildTextSelect(f1))
        allowed == getAllowedTextKeys(f2.bgSelect.value)
        f3 == [f2 EXCEPT
                 !.textSelect =
                     setValue(@, IF oldBg \in Range(allowed) THEN oldBg
                                 ELSE IF Len(allowed) > 0 THEN allowed[1]
                                 ELSE oldText),
                 !.subtitleColor =
                     setValue(@, IF oldBg \in Range(allowed) THEN oldBg
                                 ELSE IF Len(allowed) > 0 THEN allowed[1]
                                 ELSE oldSubtitleColor)]
        c1 == bgChange([c EXCEPT !.fields = f3], t)
        c2 == queuePush(c1, 0, t)
        c3 == queuePush(c2, 0, t)
    IN  queuePush(c3, 0, t)

\* timerStart / timerReset "click" listener that sends only the command
timerClick_noPush(c, chan) == emit(c, chan, NoPayload)

\* timerStart / timerReset "click" listener: pushNow(), then the command
timerClick(c, chan) ==
    LET c1 == pushNow(c)
    IN  IF c1.lastPush = "threw" THEN c1 ELSE emit(c1, chan, NoPayload)

\* DOMContentLoaded of the control surface: load the stored settings into
\* the form, then the initial pushNow
ctlLoad(c) ==
    LET stored == readStoredSettingsCtl(c.store)
        f0 == [NoFields EXCEPT !.storedText = stored.text,
                               !.bgSelect = setValue(fillSelect(PCCKeys),
                                                     stored.bg)]
        f1 == rebuildTextSelect(f0)
        f2 == IF stored.text \in Range(getAllowedTextKeys(f1.bgSelect.value))
              THEN [f1 EXCEPT !.textSelect = setValue(@, stored.text)]
              ELSE f1
        f3 == rebuildSubtitleSelect(f2)
        f4 == [f3 EXCEPT
                 !.timerMode = IF stored.timerMode \in {"off", "countdown"}
                               THEN stored.timerMode ELSE "",
                 !.timerMin = NumToString(clampInt(stored.timerMin, 0, 9999)),
                 !.timerSec = NumToString(clampInt(stored.timerSec, 0, 59)),
                 !.timerInputsHidden = (stored.timerMode # "countdown"),
                 !.titleInput = stored.titleText,
                 !.subtitleInput = stored.subtitleText,
                 !.subtitleColor = setValue(@, stored.subtitleColor)]
    IN  pushNow([c EXCEPT !.fields = f4])

(***************************************************************************)
(* Inputs                                                                  *)
(***************************************************************************)
Snapshot(c, mode, min, sec) ==
    [bg |-> c.bg, titleText |-> c.titleText, text |-> c.text,
     subtitleText |-> c.subtitleText, subtitleColor |-> c.subtitleColor,
     timerMode |-> mode, timerMin |-> min, timerSec |-> sec]

CosmeticDefault ==
    [bg |-> "turquoise", titleText |-> "ATTENTION", text |-> "navy",
     subtitleText |-> "CHECK YOUR ZOOM CHAT", subtitleColor |-> "navy"]

CosmeticOther ==
    [bg |-> "#008EAA", titleText |-> "QUIET", text |-> "white",
     subtitleText |-> " ", subtitleColor |-> "white"]

Cosmetics == {CosmeticDefault, CosmeticOther}
TimerModes == {"off", "countdown"}
TimerMins == {0, 5}
TimerSecs == {0, 1}

\* the snapshots the display surface may be sent: the control surface's
\* range of values, and two with a field outside it
Snapshots ==
    {Snapshot(c, mode, min, sec) :
        c \in Cosmetics, mode \in TimerModes,
        min \in TimerMins, sec \in TimerSecs}
    \cup {Snapshot(CosmeticDefault, "countdown", -1, 1),
          Snapshot(CosmeticDefault, "countdown", 5, -5)}

\* what an earlier session of the control surface may have left in the store
InitialStores ==
    {EmptyStore,
     writeStoredSettings(EmptyStore, Snapshot(CosmeticOther, "countdown", 5, 1))}

(***************************************************************************)
(* Initial state: both modules loaded, DOMContentLoaded not yet run.       *)
(***************************************************************************)
\* no settings window object yet, and no window in the backend
InitWindow ==
    /\ settingsWin = Null
    /\ winObjs = <<>>
    /\ liveWins = {}
    /\ calls = <<>>
    /\ lastWin = [op |-> "load", target |-> Null, acked |-> FALSE,
                  fresh |-> FALSE, handle |-> Null]

InitDisplay ==
    /\ configuredTimerMode = "off"
    /\ configuredDurationMs = 0
    /\ timerInterval = Null
    /\ remainingMs = 0
    /\ activeIntervals = {}
    /\ lastTick = [i \in {} |-> 0]
    /\ timerUrgent = FALSE
    /\ displayText = ""
    /\ displayShown = FALSE
    /\ theme = [appBg |-> "", appText |-> "", subtitleColor |-> "",
                title |-> "", subtitle |-> "", subtitleHidden |-> FALSE]
    /\ listening = FALSE
    /\ InitWindow
    /\ lastOp = [op |-> "load", prev |-> "load", arg |-> 0,
                 timerMin |-> 0, timerSec |-> 0,
                 cfgChanged |-> FALSE, themeChanged |-> FALSE, seen |-> FALSE,
                 anchored |-> FALSE,
                 pre |-> [ticking |-> FALSE, remainingMs |-> 0,
                          timerUrgent |-> FALSE, displayShown |-> FALSE,
                          displayText |-> "", mode |-> "off",
                          stale |-> FALSE]]

\* body classes and the Flash button before any message or click
InitFlash ==
    /\ bodyMode = ""
    /\ modeFlash = FALSE
    /\ flashTimeouts = [h \in {} |-> 0]
    /\ flashedAt = Never
    /\ flashDisabled = FALSE
    /\ opsState = ""
    /\ cooldowns = [h \in {} |-> 0]
    /\ flashSentAt = Never
    /\ flashGap = Never

\* the control surface before its DOMContentLoaded
InitControl ==
    /\ ctlReady = FALSE
    /\ fields = NoFields
    /\ pendingTimer = Null
    /\ timeouts = [h \in {} |-> 0]
    /\ lastSent = ""
    /\ bus = <<>>
    /\ lastPush = "none"
    /\ userActs = 0
    /\ burst = 0
    /\ lastCtl = [op |-> "load", queued |-> FALSE, emitted |-> <<>>,
                  faults |-> [store |-> FALSE, bus |-> FALSE, begun |-> 0]]
    /\ faults = [store |-> FALSE, bus |-> FALSE, begun |-> 0]
    /\ opsReady = FALSE
    /\ delivered = {}
    /\ InitFlash

Init ==
    /\ InitDisplay
    /\ now = 0
    /\ store \in InitialStores
    /\ InitControl
    /\ step = "free"
    /\ fmtIn = 0
    /\ fmtOut = ""

(***************************************************************************)
(* Display surface: one action per handler.                                *)
(***************************************************************************)
envVars == <<now, store, ctlVars, flashVars, winVars, delivered, step, fmtVars>>

\* history record of a handler run at time t: its name, the name of the run
\* before it, its numeric input, whether it changed the configured timer
\* (mode or duration) or the theme, whether a settings:changed snapshot has
\* been received so far, whether it left the live interval's lastTick.t at t,
\* and the timer state it started from (stale: time had passed since the live
\* interval's lastTick.t)
Op(name, t, arg, e) ==
    [op |-> name, prev |-> lastOp.op, arg |-> arg,
     timerMin |-> 0, timerSec |-> 0,
     cfgChanged |-> \/ e.configuredTimerMode # configuredTimerMode
                    \/ e.configuredDurationMs # configuredDurationMs,
     themeChanged |-> e.theme # theme,
     seen |-> lastOp.seen \/ name = "applySettings",
     anchored |-> /\ e.timerInterval \in DOMAIN e.lastTick
                  /\ e.lastTick[e.timerInterval] = t,
     pre |-> [ticking |-> timerInterval # Null, remainingMs |-> remainingMs,
              timerUrgent |-> timerUrgent, displayShown |-> displayShown,
              displayText |-> displayText, mode |-> configuredTimerMode,
              stale |-> /\ timerInterval \in DOMAIN lastTick
                        /\ lastTick[timerInterval] < t]]

\* a handler run: the display state becomes e (evaluated once) and the
\* history records the run
Handle(name, t, arg, e) ==
    \E r \in {e} : SetD(r) /\ lastOp' = Op(name, t, arg, r)

\* a run of applySettings(s) at time t: as Handle, and the history also
\* records the minutes and seconds of s
HandleSettings(name, t, s) ==
    \E r \in {applySettings(D, s)} :
        /\ SetD(r)
        /\ lastOp' = [Op(name, t, 0, r) EXCEPT !.timerMin = s.timerMin,
                                               !.timerSec = s.timerSec]

\* window DOMContentLoaded: apply the stored settings, register listeners
Boot ==
    /\ ~listening
    /\ HandleSettings("boot", now, readStoredSettings(store))
    /\ listening' = TRUE
    /\ UNCHANGED envVars

\* listen("settings:changed")
RecvSettings(s) ==
    /\ listening
    /\ HandleSettings("applySettings", now, s)
    /\ UNCHANGED <<listening, envVars>>

\* listen("timer:start")
RecvStart ==
    /\ listening
    /\ Handle("startCountdown", now, 0, startCountdown(D, now))
    /\ UNCHANGED <<listening, envVars>>

\* listen("timer:pause")
RecvPause ==
    /\ listening
    /\ Handle("pauseCountdown", now, 0, pauseCountdown(D))
    /\ UNCHANGED <<listening, envVars>>

\* listen("timer:reset")
RecvReset ==
    /\ listening
    /\ Handle("resetCountdown", now, 0, resetCountdown(D))
    /\ UNCHANGED <<listening, envVars>>

\* a live interval fires
Tick(h) ==
    /\ h \in activeIntervals
    /\ Handle("tick", now, now - lastTick[h], intervalCallback(D, h, now))
    /\ UNCHANGED <<listening, envVars>>

\* time passes
ClockAdvance(d) ==
    /\ now + d <= MaxNow
    /\ now' = now + d
    /\ UNCHANGED <<displayVars, store, ctlVars, flashVars, winVars, delivered,
                   step, fmtVars>>

RecvSettingsAny == \E s \in Snapshots : RecvSettings(s)
TickAny == \E h \in activeIntervals : Tick(h)
ClockAdvanceAny == \E d \in Deltas : ClockAdvance(d)

Next ==
    \/ Boot
    \/ RecvSettingsAny
    \/ RecvStart
    \/ RecvPause
    \/ RecvReset
    \/ TickAny
    \/ ClockAdvanceAny

Spec == Init /\ [][Next]_vars

TypeOK ==
    /\ configuredTimerMode \in TimerModes
    /\ configuredDurationMs \in Nat
    /\ remainingMs \in Nat
    /\ timerInterval \in Nat
    /\ timerUrgent \in BOOLEAN
    /\ displayShown \in BOOLEAN

(***************************************************************************)
(* Timer engine states of the display surface                              *)
(***************************************************************************)
Ticking == timerInterval # Null
Running == Ticking /\ timerInterval \in activeIntervals
Expired == configuredTimerMode = "countdown" /\ ~Ticking /\ remainingMs = 0

\* C1: a snapshot that leaves mode = countdown and the derived duration as
\* configured, received while the timer is Running with remainingMs = R > 0,
\* leaves remainingMs = R, the scheduler active and the urgent flag as it was.
C1_CosmeticSnapshotKeepsCountdown ==
    (/\ lastOp.op = "applySettings"
     /\ lastOp.pre.ticking
     /\ lastOp.pre.remainingMs > 0
     /\ configuredTimerMode = "countdown"
     /\ ~lastOp.cfgChanged)
    => /\ remainingMs = lastOp.pre.remainingMs
       /\ Running
       /\ timerUrgent = lastOp.pre.timerUrgent

\* a countdown that has run down to the urgent range survives a snapshot that
\* changed only the theme
C1_Witness ==
    /\ lastOp.op = "applySettings"
    /\ lastOp.pre.ticking
    /\ ~lastOp.cfgChanged
    /\ lastOp.themeChanged
    /\ configuredTimerMode = "countdown"
    /\ Running
    /\ timerUrgent
    /\ remainingMs > 0
    /\ remainingMs < configuredDurationMs

\* C2: a snapshot with mode = countdown whose mode or derived duration differs
\* from the configured one leaves remainingMs = the new duration and no
\* scheduler, whatever the engine state was.
C2_RealChangeResets ==
    (/\ lastOp.op = "applySettings"
     /\ lastOp.cfgChanged
     /\ configuredTimerMode = "countdown")
    => /\ remainingMs = configuredDurationMs
       /\ timerInterval = Null
       /\ activeIntervals = {}
       /\ (configuredDurationMs > 0 => displayShown)

\* a Running countdown that had already lost time is reset by a new duration
C2_Witness ==
    /\ lastOp.op = "applySettings"
    /\ lastOp.cfgChanged
    /\ lastOp.pre.ticking
    /\ lastOp.pre.remainingMs > 0
    /\ lastOp.pre.remainingMs < 300000
    /\ configuredTimerMode = "countdown"
    /\ configuredDurationMs > 300000
    /\ remainingMs = configuredDurationMs

\* C4: remainingMs is never negative; a poll that measures the elapsed time dt
\* lowers remainingMs by exactly dt when that leaves it positive, and otherwise
\* sets it to exactly 0 and cancels the scheduler.
C4_MonotonicCountdown ==
    /\ remainingMs >= 0
    /\ lastOp.op = "tick"
       => /\ lastOp.arg >= 0
          /\ IF lastOp.pre.remainingMs - lastOp.arg > 0
             THEN /\ remainingMs = lastOp.pre.remainingMs - lastOp.arg
                  /\ Running
             ELSE /\ remainingMs = 0
                  /\ ~Ticking
                  /\ activeIntervals = {}

\* a poll that overshoots: 1ms was left and 999ms or more had elapsed
C4_Witness ==
    /\ lastOp.op = "tick"
    /\ lastOp.pre.remainingMs > 0
    /\ lastOp.arg > lastOp.pre.remainingMs
    /\ remainingMs = 0
    /\ ~Ticking

\* C5: whenever the urgent flag is set, the configured mode is countdown and
\* 0 < remainingMs <= 300000.
C5_UrgentSound ==
    timerUrgent => /\ configuredTimerMode = "countdown"
                   /\ remainingMs > 0
                   /\ remainingMs <= 300000

\* a poll brought a 5:01 countdown down to exactly the threshold
C5_Witness ==
    /\ timerUrgent
    /\ lastOp.op = "tick"
    /\ ~lastOp.pre.timerUrgent
    /\ remainingMs = 300000

\* C6: the urgent flag is set exactly when the configured mode is countdown
\* and 0 < remainingMs <= 300000.
C6_UrgentExactly ==
    timerUrgent <=> /\ configuredTimerMode = "countdown"
                    /\ remainingMs > 0
                    /\ remainingMs <= 300000

\* C10: at most one interval of the window is live for the timer engine, and
\* it is the one timerInterval holds.
C10_SchedulerSingularity ==
    /\ Cardinality(activeIntervals) <= 1
    /\ activeIntervals = IF timerInterval = Null THEN {} ELSE {timerInterval}
    /\ DOMAIN lastTick = activeIntervals

\* a Start command arrived while the timer was already Running
C10_Witness ==
    /\ lastOp.op = "startCountdown"
    /\ lastOp.pre.ticking
    /\ Running
    /\ Cardinality(activeIntervals) = 1

TimerCommands == {"startCountdown", "pauseCountdown", "resetCountdown"}

\* the display surface handled a timer command and no settings:changed
\* snapshot has reached it yet
CommandBeforeSnapshot == lastOp.op \in TimerCommands /\ ~lastOp.seen

\* C11 as stated: a timer command handled before any settings:changed snapshot
\* leaves the engine Idle with configured duration 0, remainingMs = 0, no
\* scheduler and the timer display hidden, whatever the store contains.
C11_CommandBeforeSnapshotIdle ==
    CommandBeforeSnapshot
    => /\ configuredTimerMode = "off"
       /\ configuredDurationMs = 0
       /\ remainingMs = 0
       /\ ~Ticking
       /\ activeIntervals = {}
       /\ ~displayShown

StoredMode == getItemOr(store, "timerMode", "off")
StoredDurationMs ==
    (StringToNum(getItemOr(store, "timerMin", "5")) * 60
     + StringToNum(getItemOr(store, "timerSec", "0"))) * 1000

C17_OffSnapshotIdles ==
    (lastOp.op = "applySettings" /\ configuredTimerMode = "off")
    => /\ ~Ticking
       /\ activeIntervals = {}
       /\ remainingMs = 0
       /\ ~timerUrgent
       /\ ~displayShown

\* an off snapshot stopped a Running countdown that was in the urgent range
C17_Witness ==
    /\ lastOp.op = "applySettings"
    /\ configuredTimerMode = "off"
    /\ lastOp.pre.ticking
    /\ lastOp.pre.timerUrgent
    /\ lastOp.pre.remainingMs > 0
    /\ remainingMs = 0
    /\ ~displayShown

\* C18: in every state of the display surface, if the configured timer mode
\* is off then the timer display is hidden.
C18_HiddenWhenOff == configuredTimerMode = "off" => ~displayShown

\* C24: while the configured mode is countdown and the configured duration is
\* 0, whatever commands and snapshots were handled, no scheduler is active,
\* remainingMs is 0 and the timer display is hidden.
C24_ZeroDurationInert ==
    (configuredTimerMode = "countdown" /\ configuredDurationMs = 0)
    => /\ remainingMs = 0
       /\ ~Ticking
       /\ activeIntervals = {}
       /\ ~displayShown

\* a Start command was handled in countdown mode with duration 0
C24_Witness ==
    /\ lastOp.op = "startCountdown"
    /\ lastOp.pre.mode = "countdown"
    /\ configuredDurationMs = 0
    /\ remainingMs = 0
    /\ ~Ticking
    /\ ~displayShown

\* C25: in every state of the display surface 0 <= remainingMs <= the
\* configured duration.
C25_RemainingBounded ==
    /\ 0 <= remainingMs
    /\ remainingMs <= configuredDurationMs

\* a snapshot shortened the duration of a Running countdown to less than
\* what remained
C25_Witness ==
    /\ lastOp.op = "applySettings"
    /\ lastOp.cfgChanged
    /\ lastOp.pre.ticking
    /\ lastOp.pre.mode = "countdown"
    /\ configuredTimerMode = "countdown"
    /\ configuredDurationMs > 0
    /\ lastOp.pre.remainingMs > configuredDurationMs
    /\ remainingMs = configuredDurationMs

C27_StartTransition ==
    lastOp.op = "startCountdown"
    => IF lastOp.pre.mode # "countdown"
       THEN /\ remainingMs = lastOp.pre.remainingMs
            /\ Ticking = lastOp.pre.ticking
            /\ displayShown = lastOp.pre.displayShown
            /\ displayText = lastOp.pre.displayText
            /\ timerUrgent = lastOp.pre.timerUrgent
            /\ ~lastOp.cfgChanged
       ELSE /\ remainingMs = IF lastOp.pre.remainingMs <= 0
                             THEN configuredDurationMs
                             ELSE lastOp.pre.remainingMs
            /\ ~lastOp.cfgChanged
            /\ IF remainingMs > 0
               THEN /\ Running
                    /\ Cardinality(activeIntervals) = 1
                    /\ displayShown
               ELSE Ticking = lastOp.pre.ticking

\* a Start command resumed an Armed countdown from what a pause had retained
C27_Witness ==
    /\ lastOp.op = "startCountdown"
    /\ ~lastOp.pre.ticking
    /\ lastOp.pre.remainingMs > 0
    /\ lastOp.pre.remainingMs < configuredDurationMs
    /\ remainingMs = lastOp.pre.remainingMs
    /\ Running

\* C28: a Start command handled while the engine is Running leaves
\* remainingMs as it was and one scheduler active, whose lastTick.t is the
\* time of the command: the time between the previous poll and the command
\* is not subtracted by any later poll.
C28_StartWhileRunning ==
    (lastOp.op = "startCountdown" /\ lastOp.pre.ticking)
    => /\ remainingMs = lastOp.pre.remainingMs
       /\ Running
       /\ Cardinality(activeIntervals) = 1
       /\ lastOp.anchored
       /\ lastTick[timerInterval] <= now

\* time had passed since the previous poll when the Start command came
C28_Witness ==
    /\ lastOp.op = "startCountdown"
    /\ lastOp.pre.ticking
    /\ lastOp.pre.stale
    /\ lastOp.anchored
    /\ remainingMs = lastOp.pre.remainingMs
    /\ remainingMs < configuredDurationMs

\* C29: a Pause command leaves no scheduler and leaves remainingMs, the
\* configured mode and the configured duration as they were; a Start command
\* that follows it in countdown mode with remainingMs > 0 leaves remainingMs
\* as it was, with the engine Running.
C29_PauseRetains ==
    /\ lastOp.op = "pauseCountdown"
       => /\ ~Ticking
          /\ activeIntervals = {}
          /\ remainingMs = lastOp.pre.remainingMs
          /\ configuredTimerMode = lastOp.pre.mode
          /\ ~lastOp.cfgChanged
    /\ (/\ lastOp.op = "startCountdown"
        /\ lastOp.prev = "pauseCountdown"
        /\ configuredTimerMode = "countdown"
        /\ lastOp.pre.remainingMs > 0)
       => /\ remainingMs = lastOp.pre.remainingMs
          /\ Running

\* a Running countdown that had lost time was paused
C29_Witness ==
    /\ lastOp.op = "pauseCountdown"
    /\ lastOp.pre.ticking
    /\ remainingMs > 0
    /\ remainingMs < configuredDurationMs
    /\ ~Ticking

\* C30: setTimerMode("countdown"), as run by a snapshot that changes neither
\* mode nor duration (so that no reset follows it): with no scheduler active
\* remainingMs becomes the configured duration if it was <= 0 and is left as
\* it was otherwise, and the timer display is shown iff remainingMs > 0; with
\* a scheduler active nothing of the engine changes.
C30_SetModeCountdown ==
    (/\ lastOp.op = "applySettings"
     /\ configuredTimerMode = "countdown"
     /\ ~lastOp.cfgChanged)
    => IF lastOp.pre.ticking
       THEN /\ remainingMs = lastOp.pre.remainingMs
            /\ Running
            /\ displayShown = lastOp.pre.displayShown
            /\ displayText = lastOp.pre.displayText
            /\ timerUrgent = lastOp.pre.timerUrgent
       ELSE /\ remainingMs = IF lastOp.pre.remainingMs <= 0
                             THEN configuredDurationMs
                             ELSE lastOp.pre.remainingMs
            /\ displayShown <=> remainingMs > 0
            /\ ~Ticking

\* a snapshot that changed only the theme reached an expired countdown and
\* loaded the configured duration again
C30_Witness ==
    /\ lastOp.op = "applySettings"
    /\ ~lastOp.cfgChanged
    /\ lastOp.themeChanged
    /\ ~lastOp.pre.ticking
    /\ lastOp.pre.remainingMs = 0
    /\ lastOp.prev = "tick"
    /\ configuredTimerMode = "countdown"
    /\ remainingMs = configuredDurationMs
    /\ remainingMs > 0
    /\ displayShown

\* C31: a Reset command, in any engine state, leaves no scheduler and
\* remainingMs = the configured duration; the timer display is then shown
\* iff the mode is countdown and remainingMs > 0; the configured mode and
\* duration are as they were.
C31_ResetCommand ==
    lastOp.op = "resetCountdown"
    => /\ ~Ticking
       /\ activeIntervals = {}
       /\ remainingMs = configuredDurationMs
       /\ displayShown <=> (configuredTimerMode = "countdown" /\ remainingMs > 0)
       /\ configuredTimerMode = lastOp.pre.mode
       /\ ~lastOp.cfgChanged

\* a Running countdown that had lost time was reset
C31_Witness ==
    /\ lastOp.op = "resetCountdown"
    /\ lastOp.pre.ticking
    /\ lastOp.pre.remainingMs > 0
    /\ lastOp.pre.remainingMs < configuredDurationMs
    /\ remainingMs = configuredDurationMs
    /\ ~Ticking
    /\ displayShown

\* C32: whenever the scheduler is active the configured mode is countdown
\* and remainingMs > 0; every handler that takes the engine out of Running
\* (pause, reset, a snapshot with mode off or a changed duration, the poll
\* that reaches 0) leaves no scheduler.
C32_TickingImpliesLive ==
    /\ Ticking => /\ Running
                  /\ configuredTimerMode = "countdown"
                  /\ remainingMs > 0
    /\ ~Ticking => activeIntervals = {}
    /\ lastOp.op \in {"pauseCountdown", "resetCountdown"} => ~Ticking
    /\ (/\ lastOp.op = "applySettings"
        /\ configuredTimerMode = "off" \/ lastOp.cfgChanged) => ~Ticking
    /\ (lastOp.op = "tick" /\ remainingMs = 0) => ~Ticking

\* the scheduler is active with 1ms left
C32_Witness ==
    /\ lastOp.op = "tick"
    /\ Running
    /\ configuredTimerMode = "countdown"
    /\ remainingMs = 1

\* C38: in every state of the display surface, if the configured timer mode
\* is off then remainingMs = 0 and no scheduler is active.
C38_IdleHoldsNoTime ==
    configuredTimerMode = "off"
    => /\ remainingMs = 0
       /\ ~Ticking
       /\ activeIntervals = {}

\* C39 as stated: a snapshot whose mode and derived duration are the
\* configured ones leaves remainingMs, the scheduler's activity and the timer
\* display's text and visibility as they were, in every engine state.
C39_CosmeticSnapshotFrame ==
    (lastOp.op = "applySettings" /\ ~lastOp.cfgChanged)
    => /\ remainingMs = lastOp.pre.remainingMs
       /\ Ticking = lastOp.pre.ticking
       /\ displayText = lastOp.pre.displayText
       /\ displayShown = lastOp.pre.displayShown

\* C39 amended: such a snapshot leaves remainingMs, the scheduler's activity
\* and the timer display's text and visibility as they were when the mode is
\* countdown and the engine is Running or holds remainingMs > 0; in countdown
\* mode with no scheduler and remainingMs <= 0 (Expired) it loads the
\* configured duration again and shows it iff it is > 0; in mode off it
\* leaves remainingMs = 0, no scheduler and the display hidden at 00:00.
C39_CosmeticSnapshotEffect ==
    (lastOp.op = "applySettings" /\ ~lastOp.cfgChanged)
    => IF configuredTimerMode = "off"
       THEN /\ remainingMs = 0
            /\ ~Ticking
            /\ ~displayShown
            /\ displayText = "00:00"
       ELSE IF lastOp.pre.ticking \/ lastOp.pre.remainingMs > 0
       THEN /\ remainingMs = lastOp.pre.remainingMs
            /\ Ticking = lastOp.pre.ticking
            /\ displayText = lastOp.pre.displayText
            /\ displayShown = lastOp.pre.displayShown
       ELSE /\ remainingMs = configuredDurationMs
            /\ ~Ticking
            /\ displayShown <=> remainingMs > 0
            /\ displayText = IF remainingMs > 0 THEN formatMs(remainingMs)
                             ELSE "00:00"

\* a snapshot that changed only the theme reached a paused countdown, which
\* kept what remained
C39_Witness ==
    /\ lastOp.op = "applySettings"
    /\ ~lastOp.cfgChanged
    /\ lastOp.themeChanged
    /\ lastOp.prev = "pauseCountdown"
    /\ ~lastOp.pre.ticking
    /\ lastOp.pre.remainingMs > 0
    /\ remainingMs = lastOp.pre.remainingMs
    /\ remainingMs < configuredDurationMs
    /\ ~Ticking
    /\ displayShown

(***************************************************************************)
(* formatMs on its own: Init draws remainingMs, FormatStep renders it.     *)
(***************************************************************************)
FormatInputs ==
    (0..MaxFormatMs)
    \cup {599000, 599001, 5999000, 5999001, 6000000, 6000001, 599940000}

InitFormat ==
    /\ InitDisplay
    /\ now = 0
    /\ store = EmptyStore
    /\ InitControl
    /\ step = "free"
    /\ fmtIn \in FormatInputs
    /\ fmtOut = ""

FormatStep ==
    /\ fmtOut = ""
    /\ fmtOut' = formatMs(fmtIn)
    /\ UNCHANGED <<displayVars, now, store, ctlVars, flashVars, winVars, delivered, step, fmtIn>>

NextFormat == FormatStep

SpecFormat == InitFormat /\ [][NextFormat]_vars

\* the two decimal digits of n < 100
TwoDigits(n) == Digits[(n \div 10) + 1] \o Digits[(n % 10) + 1]

\* C7: formatMs(ms) is MM:SS for the least whole number T of seconds with
\* ms <= T * 1000: MM is T div 60 and SS is T mod 60, each at least two
\* digits; 60999 gives 01:01, 60000 gives 01:00, 0 gives 00:00, and 00:00
\* is given only for 0.
C7_DisplayRounding ==
    fmtOut # "" =>
        /\ \E T \in {fmtIn \div 1000, (fmtIn \div 1000) + 1} :
              /\ fmtIn <= T * 1000
              /\ (T - 1) * 1000 < fmtIn
              /\ fmtOut = (IF T \div 60 < 100 THEN TwoDigits(T \div 60)
                           ELSE NumToString(T \div 60))
                          \o ":" \o TwoDigits(T % 60)
        /\ (fmtIn = 60999 => fmtOut = "01:01")
        /\ (fmtIn = 60000 => fmtOut = "01:00")
        /\ (fmtIn = 0 => fmtOut = "00:00")
        /\ (fmtOut = "00:00" => fmtIn = 0)

C7_Witness == fmtIn = 60999 /\ fmtOut = "01:01"

(***************************************************************************)
(* E2E-1: empty store, the display boots with the defaults (mode off), is  *)
(* sent mode = countdown, 0 min 10 s, then timer:start, then is polled     *)
(* until expiry.                                                           *)
(***************************************************************************)
E2ESnapshot == Snapshot(CosmeticDefault, "countdown", 0, 10)

InitE2E ==
    /\ InitDisplay
    /\ now = 0
    /\ store = EmptyStore
    /\ InitControl
    /\ step = "boot"
    /\ fmtIn = 0
    /\ fmtOut = ""

E2EBoot ==
    /\ step = "boot"
    /\ HandleSettings("boot", now, readStoredSettings(store))
    /\ listening' = TRUE
    /\ step' = "edit"
    /\ UNCHANGED <<now, store, ctlVars, flashVars, winVars, delivered, fmtVars>>

E2ESettings ==
    /\ step = "edit"
    /\ listening
    /\ HandleSettings("applySettings", now, E2ESnapshot)
    /\ step' = "start"
    /\ UNCHANGED <<listening, now, store, ctlVars, flashVars, winVars, delivered, fmtVars>>

E2EStart ==
    /\ step = "start"
    /\ listening
    /\ Handle("startCountdown", now, 0, startCountdown(D, now))
    /\ step' = "run"
    /\ UNCHANGED <<listening, now, store, ctlVars, flashVars, winVars, delivered, fmtVars>>

\* d ms pass and the live interval fires
E2EPoll(h, d) ==
    /\ step = "run"
    /\ h \in activeIntervals
    /\ now' = now + d
    /\ Handle("tick", now + d, (now + d) - lastTick[h],
              intervalCallback(D, h, now + d))
    /\ UNCHANGED <<listening, store, ctlVars, flashVars, winVars, delivered, step, fmtVars>>

E2EPollAny == \E h \in activeIntervals, d \in E2EDeltas : E2EPoll(h, d)

NextE2E ==
    \/ E2EBoot
    \/ E2ESettings
    \/ E2EStart
    \/ E2EPollAny

\* the scripted messages are delivered and the interval keeps firing
SpecE2E == InitE2E /\ [][NextE2E]_vars /\ WF_vars(NextE2E)

\* C8: the E2E-1 run eventually reaches remainingMs = 0 with the scheduler
\* cancelled, and stays there.
C8_CountdownCompletes ==
    <>[](/\ step = "run"
         /\ remainingMs = 0
         /\ ~Ticking
         /\ activeIntervals = {})

\* the last poll of the run took the countdown to 0
C8_Witness ==
    /\ step = "run"
    /\ lastOp.op = "tick"
    /\ lastOp.pre.remainingMs > 0
    /\ remainingMs = 0
    /\ Expired
    /\ activeIntervals = {}

\* C9 as stated: the urgent flag is never set in the E2E-1 run.
C9_UrgentNeverTrue == step \in {"boot", "edit", "start", "run"} => ~timerUrgent

\* C9 amended: in the E2E-1 run the urgent flag is set from the moment the
\* 10 s snapshot is applied until the countdown expires (10000 <= 300000),
\* and is clear before the snapshot and after expiry.
C9_UrgentWhileCounting ==
    timerUrgent <=> (step \in {"start", "run"} /\ remainingMs > 0)

\* the countdown has expired and the flag is clear again
C9_Witness ==
    /\ step = "run"
    /\ lastOp.op = "tick"
    /\ lastOp.pre.timerUrgent
    /\ remainingMs = 0
    /\ ~timerUrgent

(***************************************************************************)
(* Control surface: one action per listener.  The user makes at most       *)
(* MaxUserActs edits and clicks in a session.                              *)
(***************************************************************************)
BgChoices == {"navy"}
TextChoices == {"white"}
SubtitleColorChoices == {"navy"}
TitleChoices == {"QUIET"}
SubtitleChoices == {"QUIET PLEASE"}
TimerMinChoices == {"0"}
TimerSecChoices == {"75"}

ctlFrame == <<displayVars, now, ctlReady, faults, opsReady, flashVars, winVars, delivered, step,
              fmtVars>>

UserMayAct == ctlReady /\ userActs < MaxUserActs

\* history record of a listener run that took the control surface to r:
\* its kind, whether it called queuePush, the channels it sent on, and
\* what was failing while it ran
Ctl(name, r) ==
    [op |-> name,
     queued |-> \/ r.burst # burst
                \/ pendingTimer = Null /\ r.pendingTimer # Null,
     emitted |-> [i \in 1..(Len(r.bus) - Len(bus)) |-> r.bus[Len(bus) + i].chan],
     faults |-> faults]

\* a listener run for a user's edit or click
UserAct(c) ==
    /\ \E r \in {c} : SetC(r) /\ lastCtl' = Ctl("user", r)
    /\ userActs' = userActs + 1
    /\ UNCHANGED ctlFrame

\* window DOMContentLoaded on the control surface
CtlBoot ==
    /\ ~ctlReady
    /\ ctlReady' = TRUE
    /\ \E r \in {ctlLoad(C)} :
          /\ SetC(r)
          /\ lastCtl' = Ctl("boot", r)
          /\ opsReady' = (r.lastPush # "threw")
    /\ UNCHANGED <<displayVars, now, userActs, faults, flashVars, winVars, delivered, step,
                   fmtVars>>

\* the user picks a background colour
EditBg(v) ==
    /\ UserMayAct
    /\ v \in Range(fields.bgSelect.options)
    /\ UserAct(bgChange([C EXCEPT !.fields.bgSelect = setValue(@, v)], now))

\* the user picks a text colour
EditText(v) ==
    /\ UserMayAct
    /\ v \in Range(fields.textSelect.options)
    /\ UserAct(queuePush([C EXCEPT !.fields.textSelect = setValue(@, v)],
                         0, now))

\* the user picks a subtitle colour
EditSubtitleColor(v) ==
    /\ UserMayAct
    /\ v \in Range(fields.subtitleColor.options)
    /\ UserAct(queuePush([C EXCEPT !.fields.subtitleColor = setValue(@, v)],
                         0, now))

ClickSwap ==
    /\ UserMayAct
    /\ UserAct(swapClick(C, now))

EditTimerMode(v) ==
    /\ UserMayAct
    /\ UserAct(queuePush([C EXCEPT !.fields.timerMode = v,
                                   !.fields.timerInputsHidden =
                                       (v # "countdown")],
                         0, now))

EditTimerMin(v) ==
    /\ UserMayAct
    /\ UserAct(queuePush([C EXCEPT !.fields.timerMin = v], 150, now))

EditTimerSec(v) ==
    /\ UserMayAct
    /\ UserAct(queuePush([C EXCEPT !.fields.timerSec = v], 150, now))

EditTitle(v) ==
    /\ UserMayAct
    /\ UserAct(queuePush([C EXCEPT !.fields.titleInput = v], 150, now))

EditSubtitle(v) ==
    /\ UserMayAct
    /\ UserAct(queuePush([C EXCEPT !.fields.subtitleInput = v], 150, now))

ClickClearSubtitle ==
    /\ UserMayAct
    /\ UserAct(queuePush([C EXCEPT !.fields.subtitleInput = ""], 0, now))

\* a pending setTimeout of queuePush comes due
PushTimeout(h) ==
    /\ h \in DOMAIN timeouts
    /\ now >= timeouts[h]
    /\ \E r \in {pushTimeout(C, h)} : SetC(r) /\ lastCtl' = Ctl("timeout", r)
    /\ UNCHANGED <<ctlFrame, userActs>>

ClickStart ==
    /\ UserMayAct
    /\ UserAct(timerClick(C, "timer:start"))

ClickPause ==
    /\ UserMayAct
    /\ UserAct(emit(C, "timer:pause", NoPayload))

ClickReset ==
    /\ UserMayAct
    /\ UserAct(timerClick(C, "timer:reset"))

CtlClockAdvance(d) ==
    /\ now + d <= MaxCtlNow
    /\ now' = now + d
    /\ UNCHANGED <<displayVars, store, ctlVars, flashVars, winVars, delivered,
                   step, fmtVars>>

EditBgAny == \E v \in BgChoices : EditBg(v)
EditTextAny == \E v \in TextChoices : EditText(v)
EditSubtitleColorAny == \E v \in SubtitleColorChoices : EditSubtitleColor(v)
EditTimerModeAny == \E v \in TimerModes : EditTimerMode(v)
EditTimerMinAny == \E v \in TimerMinChoices : EditTimerMin(v)
EditTimerSecAny == \E v \in TimerSecChoices : EditTimerSec(v)
EditTitleAny == \E v \in TitleChoices : EditTitle(v)
EditSubtitleAny == \E v \in SubtitleChoices : EditSubtitle(v)
PushTimeoutAny == \E h \in DOMAIN timeouts : PushTimeout(h)
CtlClockAdvanceAny == \E d \in CtlDeltas : CtlClockAdvance(d)

NextControl ==
    \/ CtlBoot
    \/ EditBgAny
    \/ EditTextAny
    \/ EditSubtitleColorAny
    \/ ClickSwap
    \/ EditTimerModeAny
    \/ EditTimerMinAny
    \/ EditTimerSecAny
    \/ EditTitleAny
    \/ EditSubtitleAny
    \/ ClickClearSubtitle
    \/ PushTimeoutAny
    \/ ClickStart
    \/ ClickPause
    \/ ClickReset
    \/ CtlClockAdvanceAny

SpecControl == Init /\ [][NextControl]_vars

\* the snapshots emitted on settings:changed, in order
RECURSIVE SettingsEmitted(_)
SettingsEmitted(b) ==
    IF b = <<>> THEN <<>>
    ELSE IF Head(b).chan = "settings:changed"
         THEN <<JSONstringify(Head(b).payload)>> \o SettingsEmitted(Tail(b))
         ELSE SettingsEmitted(Tail(b))

\* C3: no two consecutive settings:changed emissions of a session carry the
\* same serialized snapshot, and a push whose snapshot equals the last
\* emitted one emits nothing.
C3_IdempotentPublish ==
    LET sent == SettingsEmitted(bus)
    IN  /\ \A i \in 1..(Len(sent) - 1) : sent[i] # sent[i + 1]
        /\ (sent # <<>> => lastSent = sent[Len(sent)])

\* a Start click pushed the snapshot already emitted: the command went out
\* directly after the earlier snapshot, with no second settings:changed
C3_Witness ==
    /\ lastPush = "suppressed"
    /\ Len(bus) >= 3
    /\ bus[Len(bus)].chan = "timer:start"
    /\ bus[Len(bus) - 1].chan = "settings:changed"
    /\ Len(SettingsEmitted(bus)) >= 2

\* the settings:changed emissions among the channels of one listener run
SettingsAmong(chans) ==
    Cardinality({i \in 1..Len(chans) : chans[i] = "settings:changed"})

\* C13: at most one delayed push is pending at any time and it is the one
\* pendingTimer holds; a listener run that queues a push emits nothing
\* itself, so the edits of a burst emit nothing; the delayed push, like every
\* listener run, emits at most one settings:changed; and whenever no push is
\* pending the last emitted snapshot carries the current field values.
C13_DebounceGate ==
    /\ Cardinality(DOMAIN timeouts) <= 1
    /\ DOMAIN timeouts = (IF pendingTimer = Null THEN {} ELSE {pendingTimer})
    /\ lastCtl.queued => lastCtl.emitted = <<>>
    /\ SettingsAmong(lastCtl.emitted) <= 1
    /\ (ctlReady /\ pendingTimer = Null)
       => lastSent = JSONstringify(snapshotOf(fields))

\* the title and then the subtitle were typed within one delay: the two
\* edits were merged into one push, which emitted one snapshot with both
C13_Witness ==
    /\ lastCtl.op = "timeout"
    /\ lastCtl.emitted = <<"settings:changed">>
    /\ userActs = 2
    /\ burst = 2
    /\ pendingTimer = Null
    /\ lastPush = "sent"
    /\ Len(SettingsEmitted(bus)) = 2
    /\ bus[Len(bus)].chan = "settings:changed"
    /\ bus[Len(bus)].payload.titleText = "QUIET"
    /\ bus[Len(bus)].payload.subtitleText = "QUIET PLEASE"

\* the payloads emitted on settings:changed, in order
RECURSIVE SnapshotsEmitted(_)
SnapshotsEmitted(b) ==
    IF b = <<>> THEN <<>>
    ELSE IF Head(b).chan = "settings:changed"
         THEN <<Head(b).payload>> \o SnapshotsEmitted(Tail(b))
         ELSE SnapshotsEmitted(Tail(b))

\* the store entries that persist snapshot a: one string per field
EntriesOf(a) ==
    [bg |-> a.bg, text |-> a.text, titleText |-> a.titleText,
     subtitleText |-> a.subtitleText, subtitleColor |-> a.subtitleColor,
     timerMode |-> a.timerMode, timerMin |-> NumToString(a.timerMin),
     timerSec |-> NumToString(a.timerSec)]

\* C14: the store's settings entries change only in a push that publishes,
\* which writes the snapshot it publishes: before the first publish the store
\* is as the session found it, and from the first publish on its settings
\* entries are those of the last snapshot emitted on settings:changed; a
\* suppressed push leaves the store alone.
C14_PersistAndPublish ==
    LET sent == SnapshotsEmitted(bus)
    IN  /\ sent = <<>> => store \in InitialStores
        /\ sent # <<>> => store = EntriesOf(sent[Len(sent)])
        /\ lastPush = "sent" => lastSent = JSONstringify(sent[Len(sent)])

\* a session that started on an empty store has published twice; the store
\* holds the second snapshot, with the title typed by the user
C14_Witness ==
    /\ lastPush = "sent"
    /\ Len(SnapshotsEmitted(bus)) = 2
    /\ lastCtl.emitted = <<"settings:changed">>
    /\ store = EntriesOf(bus[Len(bus)].payload)
    /\ store["titleText"] = "QUIET"
    /\ store["subtitleColor"] = "navy"

\* C33: a click on Start or Reset emits the command last, preceded by at most
\* one settings:changed carrying the current field values, which is emitted
\* iff they differ from the last emitted snapshot, also while a debounced
\* push is pending; a click on Pause emits only timer:pause.
C33_StartResetFlush ==
    LET em == lastCtl.emitted
        sent == SettingsEmitted(bus)
        key == JSONstringify(snapshotOf(fields))
    IN  lastCtl.op = "user" =>
          /\ \A cmd \in {"timer:start", "timer:reset"} :
                cmd \in Range(em) =>
                  /\ em \in {<<cmd>>, <<"settings:changed", cmd>>}
                  /\ lastSent = key
                  /\ sent # <<>>
                  /\ sent[Len(sent)] = key
                  /\ Len(em) = 2 =>
                        /\ bus[Len(bus) - 1].payload = snapshotOf(fields)
                        /\ Len(sent) >= 2
                        /\ sent[Len(sent) - 1] # key
          /\ "timer:pause" \in Range(em) => em = <<"timer:pause">>

\* Start was clicked while a debounced title edit was pending: the edit went
\* out with the click, before timer:start
C33_Witness ==
    /\ lastCtl.op = "user"
    /\ lastCtl.emitted = <<"settings:changed", "timer:start">>
    /\ pendingTimer # Null
    /\ bus[Len(bus) - 1].payload.titleText = "QUIET"
    /\ bus[Len(bus)].chan = "timer:start"

(***************************************************************************)
(* The control surface with a failing environment: localStorage.setItem    *)
(* may throw, or a send on the bus may fail, for a stretch of a session;   *)
(* at most MaxFaults such stretches begin in one session.                  *)
(***************************************************************************)
faultFrame == <<displayVars, now, store, ctlReady, fields, pendingTimer,
                timeouts, lastSent, bus, lastPush, userActs, burst, lastCtl,
                opsReady, flashVars, winVars, delivered, step, fmtVars>>

StoreFails ==
    /\ ~faults.store
    /\ faults.begun < MaxFaults
    /\ faults' = [faults EXCEPT !.store = TRUE, !.begun = @ + 1]
    /\ UNCHANGED faultFrame

StoreRecovers ==
    /\ faults.store
    /\ faults' = [faults EXCEPT !.store = FALSE]
    /\ UNCHANGED faultFrame

BusFails ==
    /\ ~faults.bus
    /\ faults.begun < MaxFaults
    /\ faults' = [faults EXCEPT !.bus = TRUE, !.begun = @ + 1]
    /\ UNCHANGED faultFrame

BusRecovers ==
    /\ faults.bus
    /\ faults' = [faults EXCEPT !.bus = FALSE]
    /\ UNCHANGED faultFrame

NextStoreFaulty ==
    \/ NextControl
    \/ StoreFails
    \/ StoreRecovers

NextBusFaulty ==
    \/ NextControl
    \/ BusFails
    \/ BusRecovers

SpecStoreFaulty == Init /\ [][NextStoreFaulty]_vars
SpecBusFaulty == Init /\ [][NextBusFaulty]_vars

\* the last listener run was a push (from a timeout, or a Start or Reset
\* click) with nothing failing and left no push pending
PushedHealthy ==
    /\ lastPush # "none"
    /\ ~lastCtl.faults.store
    /\ ~lastCtl.faults.bus
    /\ pendingTimer = Null

\* the snapshot last sent on settings:changed is the one in the fields
CurrentSnapshotSent ==
    LET sent == SnapshotsEmitted(bus)
    IN  sent # <<>> /\ sent[Len(sent)] = snapshotOf(fields)

\* C15: a push whose snapshot differs from the last emitted one and whose
\* store write fails still publishes the snapshot on settings:changed, and a
\* later push with a working store persists and publishes the current
\* values.
C15_WriteFailureNonFatal ==
    /\ (lastCtl.faults.store /\ lastPush \notin {"none", "suppressed"})
       => "settings:changed" \in Range(lastCtl.emitted)
    /\ PushedHealthy
       => store = EntriesOf(snapshotOf(fields)) /\ CurrentSnapshotSent

\* C16: after a settings:changed send was lost, the next push made with a
\* working bus (the delayed push of an edit, or a Start or Reset click) has
\* sent the current full snapshot.
C16_DeliveryFailureSelfHeals ==
    PushedHealthy => CurrentSnapshotSent

(***************************************************************************)
(* Flash: attention:setMode / attention:flash on the display surface       *)
(* (main.ts, registered when the module loads) and the Show / Blank /      *)
(* Flash buttons of the control surface.                                   *)
(***************************************************************************)
FLASH_MS == 1800
FLASH_COOLDOWN_MS == 1500

A == [bodyMode |-> bodyMode, modeFlash |-> modeFlash,
      flashTimeouts |-> flashTimeouts, flashedAt |-> flashedAt]

SetA(a) ==
    \E r \in {a} :
        /\ bodyMode' = r.bodyMode
        /\ modeFlash' = r.modeFlash
        /\ flashTimeouts' = r.flashTimeouts
        /\ flashedAt' = r.flashedAt

\* setMode(mode) of the display surface
setMode(a, mode) ==
    [a EXCEPT !.bodyMode = IF mode = "blank" THEN "mode-blank"
                           ELSE "mode-message",
              !.modeFlash = FALSE]

\* flash() at time t
flash(a, t) ==
    LET h == FreshHandle(DOMAIN a.flashTimeouts)
    IN  [a EXCEPT !.modeFlash = TRUE,
                  !.flashedAt = t,
                  !.flashTimeouts = [i \in (DOMAIN @) \cup {h} |->
                                        IF i = h THEN t + FLASH_MS ELSE @[i]]]

\* the callback flash() hands to setTimeout, when handle h fires
flashTimeout(a, h) ==
    [a EXCEPT !.modeFlash = FALSE,
              !.flashTimeouts = [i \in (DOMAIN @) \ {h} |-> @[i]]]

\* the Flash button's state, with the bus
O == [flashDisabled |-> flashDisabled, opsState |-> opsState,
      cooldowns |-> cooldowns, flashSentAt |-> flashSentAt,
      flashGap |-> flashGap, bus |-> bus, faults |-> faults]

SetO(o) ==
    \E r \in {o} :
        /\ flashDisabled' = r.flashDisabled
        /\ opsState' = r.opsState
        /\ cooldowns' = r.cooldowns
        /\ flashSentAt' = r.flashSentAt
        /\ flashGap' = r.flashGap
        /\ bus' = r.bus

setOpsState(o, state) == [o EXCEPT !.opsState = state]

\* btnShow.onclick / btnBlank.onclick
modeClick(o, mode) ==
    setOpsState(emit(o, "attention:setMode", mode),
                IF mode = "blank" THEN "blank" ELSE "live")

\* btnFlash.onclick that leaves the button enabled
btnFlashClick_noDisable(o, t) ==
    LET o1 == setOpsState(emit(o, "attention:flash", NoPayload), "flash")
        h == FreshHandle(DOMAIN o1.cooldowns)
    IN  [o1 EXCEPT !.flashSentAt = t,
                   !.flashGap = IF o.flashSentAt = Never THEN Never
                                ELSE t - o.flashSentAt,
                   !.cooldowns = [i \in (DOMAIN @) \cup {h} |->
                                     IF i = h THEN t + FLASH_COOLDOWN_MS
                                     ELSE @[i]]]

\* btnFlash.onclick at time t
btnFlashClick(o, t) ==
    LET o1 == setOpsState(emit(o, "attention:flash", NoPayload), "flash")
        h == FreshHandle(DOMAIN o1.cooldowns)
    IN  [o1 EXCEPT !.flashDisabled = TRUE,
                   !.flashSentAt = t,
                   !.flashGap = IF o.flashSentAt = Never THEN Never
                                ELSE t - o.flashSentAt,
                   !.cooldowns = [i \in (DOMAIN @) \cup {h} |->
                                     IF i = h THEN t + FLASH_COOLDOWN_MS
                                     ELSE @[i]]]

\* the callback btnFlash.onclick hands to setTimeout, when handle h fires
cooldownTimeout(o, h) ==
    [setOpsState(o, "live") EXCEPT
        !.flashDisabled = FALSE,
        !.cooldowns = [i \in (DOMAIN @) \ {h} |-> @[i]]]

attnFrame == <<displayVars, opsVars, winVars, delivered, now, store, ctlVars,
              step, fmtVars>>

opsFrame == <<displayVars, attnVars, winVars, delivered, now, store, ctlReady, fields,
              pendingTimer, timeouts, lastSent, lastPush, burst, lastCtl,
              faults, opsReady, step, fmtVars>>

\* listen("attention:flash"); at most MaxFlashes flash timeouts are pending
RecvFlash ==
    /\ Cardinality(DOMAIN flashTimeouts) < MaxFlashes
    /\ SetA(flash(A, now))
    /\ UNCHANGED attnFrame

\* listen("attention:setMode")
RecvSetMode(mode) ==
    /\ SetA(setMode(A, mode))
    /\ UNCHANGED attnFrame

\* a pending timeout of flash() comes due
FlashTimeout(h) ==
    /\ h \in DOMAIN flashTimeouts
    /\ now >= flashTimeouts[h]
    /\ SetA(flashTimeout(A, h))
    /\ UNCHANGED attnFrame

\* a click on an ops button (a disabled button gets no click)
OpsClick(o) ==
    /\ opsReady
    /\ userActs < MaxUserActs
    /\ SetO(o)
    /\ userActs' = userActs + 1
    /\ UNCHANGED opsFrame

ClickFlash ==
    /\ ~flashDisabled
    /\ OpsClick(btnFlashClick(O, now))

ClickShow == OpsClick(modeClick(O, "message"))

ClickBlank == OpsClick(modeClick(O, "blank"))

\* the pending timeout of btnFlash.onclick comes due
CooldownTimeout(h) ==
    /\ h \in DOMAIN cooldowns
    /\ now >= cooldowns[h]
    /\ SetO(cooldownTimeout(O, h))
    /\ UNCHANGED <<opsFrame, userActs>>

FlashClockAdvance(d) ==
    /\ now + d <= MaxFlashNow
    /\ now' = now + d
    /\ UNCHANGED <<displayVars, store, ctlVars, flashVars, winVars, delivered,
                   step, fmtVars>>

RecvSetModeAny == \E mode \in {"message", "blank"} : RecvSetMode(mode)
FlashTimeoutAny == \E h \in DOMAIN flashTimeouts : FlashTimeout(h)
CooldownTimeoutAny == \E h \in DOMAIN cooldowns : CooldownTimeout(h)
FlashClockAdvanceAny == \E d \in FlashDeltas : FlashClockAdvance(d)

NextFlash ==
    \/ CtlBoot
    \/ RecvFlash
    \/ RecvSetModeAny
    \/ FlashTimeoutAny
    \/ ClickFlash
    \/ ClickShow
    \/ ClickBlank
    \/ CooldownTimeoutAny
    \/ FlashClockAdvanceAny

SpecFlash == Init /\ [][NextFlash]_vars

\* C19: from every receipt of attention:flash until 1800ms after it the
\* display is in the flash visual state, also when another attention:flash
\* or an attention:setMode arrives in between.
C19_FlashLasts1800 ==
    (flashedAt # Never /\ now < flashedAt + 1800) => modeFlash

\* C20: the Flash button is disabled from an attention:flash emission until
\* 1500ms have elapsed, and no two emissions are less than 1500ms apart.
C20_FlashCooldown ==
    /\ (flashSentAt # Never /\ now < flashSentAt + 1500) => flashDisabled
    /\ flashDisabled => DOMAIN cooldowns # {}
    /\ flashGap = Never \/ flashGap >= 1500

\* a second attention:flash went out, 1500ms after the first
C20_Witness ==
    /\ flashGap = 1500
    /\ flashDisabled
    /\ Len(bus) >= 3
    /\ bus[Len(bus)].chan = "attention:flash"

(***************************************************************************)
(* Both surfaces over an empty store: the display surface and the control  *)
(* surface each load once, in either order, and the user then works the    *)
(* control surface.                                                        *)
(***************************************************************************)
InitDefaults ==
    /\ InitDisplay
    /\ now = 0
    /\ store = EmptyStore
    /\ InitControl
    /\ step = "free"
    /\ fmtIn = 0
    /\ fmtOut = ""

NextDefaults ==
    \/ Boot
    \/ NextControl

SpecDefaults == InitDefaults /\ [][NextDefaults]_vars

\* the defaults of the specification
DefaultSettings ==
    [bg |-> "turquoise", titleText |-> "ATTENTION", text |-> "navy",
     subtitleText |-> "CHECK YOUR ZOOM CHAT", subtitleColor |-> "navy",
     timerMode |-> "off", timerMin |-> 5, timerSec |-> 0]

\* the display surface shows the configuration s
DisplayShows(s) ==
    /\ theme.appBg = setThemeSlot(s.bg)
    /\ theme.appText = setThemeSlot(s.text)
    /\ theme.subtitleColor = setThemeSlot(s.subtitleColor)
    /\ theme.title = s.titleText
    /\ theme.subtitle = s.subtitleText
    /\ configuredTimerMode = s.timerMode
    /\ configuredDurationMs = (s.timerMin * 60 + s.timerSec) * 1000

\* C23: over an empty store both surfaces derive the defaults (background
\* turquoise, text navy, title ATTENTION, subtitle CHECK YOUR ZOOM CHAT,
\* subtitle colour navy, timer off, 5 min 0 s): the display surface shows
\* them when it loaded before the control surface wrote anything, and the
\* first snapshot the control surface publishes carries exactly them.
C23_Defaults ==
    /\ (listening /\ ~ctlReady) => DisplayShows(DefaultSettings)
    /\ bus # <<>> => /\ bus[1].chan = "settings:changed"
                     /\ bus[1].payload = DefaultSettings

(***************************************************************************)
(* The settings window (src/main.ts, openSettingsWindow).  Every window    *)
(* object is constructed with the label "settings"; the backend keeps at   *)
(* most one window per label and answers show / setFocus by label.  An     *)
(* invocation of openSettingsWindow is suspended at each await, and the    *)
(* backend's answers and the tauri://created / tauri://error events arrive *)
(* in any order.  At most MaxOpens invocations are made in a session.      *)
(***************************************************************************)
winFrame == <<displayVars, now, store, ctlVars, flashVars, delivered, step,
             fmtVars>>

\* the window object w has received tauri://created
Acked(w) == w \in DOMAIN winObjs /\ winObjs[w] = "created"

\* some window object's creation has been requested and not yet answered
CreationPending == \E w \in DOMAIN winObjs : winObjs[w] = "pending"

\* history record of a call made on the window object w, with the handle
\* stored in settingsWin when the call was made
Win(name, w) ==
    [op |-> name, target |-> w, acked |-> Acked(w),
     fresh |-> liveWins = {} /\ ~CreationPending, handle |-> settingsWin]

\* new WebviewWindow("settings", ...); settingsWin = win; the two once()
\* handlers are registered on the new object
newWebviewWindow ==
    /\ winObjs' = Append(winObjs, "pending")
    /\ settingsWin' = Len(winObjs) + 1
    /\ lastWin' = Win("new", Len(winObjs) + 1)
    /\ UNCHANGED liveWins

\* openSettingsWindow() is called (launch timeout, button, Cmd/Ctrl + comma
\* or menu) and runs to its first await, or to its end
OpenCall ==
    /\ listening
    /\ Len(calls) < MaxOpens
    /\ IF settingsWin # Null
       THEN /\ calls' = Append(calls, "show")
            /\ lastWin' = Win("show", settingsWin)
            /\ UNCHANGED <<settingsWin, winObjs, liveWins>>
       ELSE /\ calls' = Append(calls, "done")
            /\ newWebviewWindow
    /\ UNCHANGED winFrame

\* the backend answers a show or setFocus request: it succeeds iff a window
\* labelled "settings" exists
BackendAnswers(i) ==
    /\ i \in DOMAIN calls
    /\ calls[i] \in {"show", "focus"}
    /\ calls' = [calls EXCEPT ![i] =
                    IF liveWins # {} THEN @ \o "Ok" ELSE @ \o "Err"]
    /\ UNCHANGED <<settingsWin, winObjs, liveWins, lastWin, winFrame>>

\* await settingsWin.show() resolved: settingsWin.setFocus() is called
\* (settingsWin is read again; on null the call throws into the catch)
ShowResolved(i) ==
    /\ i \in DOMAIN calls
    /\ calls[i] = "showOk"
    /\ IF settingsWin # Null
       THEN /\ calls' = [calls EXCEPT ![i] = "focus"]
            /\ lastWin' = Win("setFocus", settingsWin)
            /\ UNCHANGED <<settingsWin, winObjs, liveWins>>
       ELSE /\ calls' = [calls EXCEPT ![i] = "done"]
            /\ newWebviewWindow
    /\ UNCHANGED winFrame

\* await settingsWin.setFocus() resolved: return
FocusResolved(i) ==
    /\ i \in DOMAIN calls
    /\ calls[i] = "focusOk"
    /\ calls' = [calls EXCEPT ![i] = "done"]
    /\ UNCHANGED <<settingsWin, winObjs, liveWins, lastWin, winFrame>>

\* show or setFocus rejected: catch { settingsWin = null }, then the window
\* is constructed again
Recreate(i) ==
    /\ i \in DOMAIN calls
    /\ calls[i] \in {"showErr", "focusErr"}
    /\ calls' = [calls EXCEPT ![i] = "done"]
    /\ newWebviewWindow
    /\ UNCHANGED winFrame

\* the backend creates the window of object w: the label is free
BackendCreates(w) ==
    /\ w \in DOMAIN winObjs
    /\ winObjs[w] = "pending"
    /\ liveWins = {}
    /\ liveWins' = {w}
    /\ winObjs' = [winObjs EXCEPT ![w] = "built"]
    /\ UNCHANGED <<settingsWin, calls, lastWin, winFrame>>

\* the backend refuses to create the window of object w (the label is
\* taken, or the creation fails)
BackendRefuses(w) ==
    /\ w \in DOMAIN winObjs
    /\ winObjs[w] = "pending"
    /\ winObjs' = [winObjs EXCEPT ![w] = "refused"]
    /\ UNCHANGED <<settingsWin, liveWins, calls, lastWin, winFrame>>

\* win.once("tauri://created"): show and setFocus are called on win; their
\* failure is only reported
CreatedEvent(w) ==
    /\ w \in DOMAIN winObjs
    /\ winObjs[w] = "built"
    /\ winObjs' = [winObjs EXCEPT ![w] = "created"]
    /\ lastWin' = [Win("show", w) EXCEPT !.acked = TRUE]
    /\ UNCHANGED <<settingsWin, liveWins, calls, winFrame>>

\* win.once("tauri://error"): settingsWin = null
ErrorEvent(w) ==
    /\ w \in DOMAIN winObjs
    /\ winObjs[w] = "refused"
    /\ winObjs' = [winObjs EXCEPT ![w] = "failed"]
    /\ settingsWin' = Null
    /\ lastWin' = Win("error", w)
    /\ UNCHANGED <<liveWins, calls, winFrame>>

\* the user closes the settings window
UserCloses ==
    /\ liveWins # {}
    /\ liveWins' = {}
    /\ UNCHANGED <<settingsWin, winObjs, calls, lastWin, winFrame>>

BackendAnswersAny == \E i \in DOMAIN calls : BackendAnswers(i)
ShowResolvedAny == \E i \in DOMAIN calls : ShowResolved(i)
FocusResolvedAny == \E i \in DOMAIN calls : FocusResolved(i)
RecreateAny == \E i \in DOMAIN calls : Recreate(i)
BackendCreatesAny == \E w \in DOMAIN winObjs : BackendCreates(w)
BackendRefusesAny == \E w \in DOMAIN winObjs : BackendRefuses(w)
CreatedEventAny == \E w \in DOMAIN winObjs : CreatedEvent(w)
ErrorEventAny == \E w \in DOMAIN winObjs : ErrorEvent(w)

NextWindow ==
    \/ Boot
    \/ OpenCall
    \/ BackendAnswersAny
    \/ ShowResolvedAny
    \/ FocusResolvedAny
    \/ RecreateAny
    \/ BackendCreatesAny
    \/ BackendRefusesAny
    \/ CreatedEventAny
    \/ ErrorEventAny
    \/ UserCloses

SpecWindow == Init /\ [][NextWindow]_vars

\* C21: at most one settings window exists at any time, and a window object
\* is constructed only when no window exists and none is being created.
C21_SingleSettingsWindow ==
    /\ Cardinality(liveWins) <= 1
    /\ lastWin.op = "new" => lastWin.fresh

\* C22: show and setFocus are called on a window object only after that
\* object received tauri://created.
C22_ShowWaitsForCreated ==
    lastWin.op \in {"show", "setFocus"} => lastWin.acked

\* C37: whenever a settings window exists the stored handle refers to the
\* object that window belongs to, and the tauri://error handler of a window
\* object never clears a handle that refers to another object.
C37_HandleConsistency ==
    /\ liveWins # {} => settingsWin \in liveWins
    /\ lastWin.op = "error" => lastWin.handle \in {Null, lastWin.target}

(***************************************************************************)
(* Both surfaces and the bus between them.  A listener of the display      *)
(* surface is handed the messages of its channel in the order they were    *)
(* emitted; messages of different channels are handed over in any order.   *)
(***************************************************************************)
\* the bus messages on chan that no listener has been handed yet
Undelivered(chan) ==
    {i \in DOMAIN bus : i \notin delivered /\ bus[i].chan = chan}

\* message i is the oldest undelivered one of its channel
NextOnChannel(i) ==
    /\ i \in DOMAIN bus
    /\ i \notin delivered
    /\ \A j \in Undelivered(bus[i].chan) : i <= j

TimerChannels ==
    {"settings:changed", "timer:start", "timer:pause", "timer:reset"}

AttentionChannels == {"attention:setMode", "attention:flash"}

\* every message emitted on one of the channels has been handed over
AllDelivered(chans) ==
    \A i \in DOMAIN bus : bus[i].chan \in chans => i \in delivered

\* the listeners are handed the messages of a channel in any order
Deliver_anyOrder(i) ==
    /\ listening
    /\ i \in DOMAIN bus
    /\ i \notin delivered
    /\ bus[i].chan \in TimerChannels
    /\ CASE bus[i].chan = "settings:changed" ->
               HandleSettings("applySettings", now, bus[i].payload)
         [] bus[i].chan = "timer:start" ->
               Handle("startCountdown", now, 0, startCountdown(D, now))
         [] bus[i].chan = "timer:pause" ->
               Handle("pauseCountdown", now, 0, pauseCountdown(D))
         [] bus[i].chan = "timer:reset" ->
               Handle("resetCountdown", now, 0, resetCountdown(D))
    /\ delivered' = delivered \cup {i}
    /\ UNCHANGED <<listening, now, store, ctlVars, flashVars, winVars, step,
                   fmtVars>>

\* the display surface's listener for message i of the bus runs
Deliver(i) ==
    /\ listening
    /\ NextOnChannel(i)
    /\ bus[i].chan \in TimerChannels
    /\ CASE bus[i].chan = "settings:changed" ->
               HandleSettings("applySettings", now, bus[i].payload)
         [] bus[i].chan = "timer:start" ->
               Handle("startCountdown", now, 0, startCountdown(D, now))
         [] bus[i].chan = "timer:pause" ->
               Handle("pauseCountdown", now, 0, pauseCountdown(D))
         [] bus[i].chan = "timer:reset" ->
               Handle("resetCountdown", now, 0, resetCountdown(D))
    /\ delivered' = delivered \cup {i}
    /\ UNCHANGED <<listening, now, store, ctlVars, flashVars, winVars, step,
                   fmtVars>>

DeliverAny == \E i \in DOMAIN bus : Deliver(i)

\* the display surface opens the control surface once its listeners are
\* registered; the user then works the timer controls and the title
NextSync ==
    \/ Boot
    \/ (listening /\ CtlBoot)
    \/ EditTimerModeAny
    \/ EditTimerMinAny
    \/ EditTimerSecAny
    \/ EditTitleAny
    \/ PushTimeoutAny
    \/ ClickStart
    \/ ClickPause
    \/ ClickReset
    \/ CtlClockAdvanceAny
    \/ DeliverAny

SpecSync == Init /\ [][NextSync]_vars

\* C34: when no debounced push is pending and every emitted snapshot and
\* command has been delivered, the display's configured timer mode and
\* duration are those derived from the control surface's field values.
C34_Convergence ==
    (/\ ctlReady
     /\ listening
     /\ pendingTimer = Null
     /\ AllDelivered(TimerChannels))
    => /\ configuredTimerMode = snapshotOf(fields).timerMode
       /\ configuredDurationMs =
              (snapshotOf(fields).timerMin * 60
               + snapshotOf(fields).timerSec) * 1000

\* the user set countdown mode and 75 seconds; after the debounced push the
\* display is configured with countdown, 0 min 59 s
C34_Witness ==
    /\ ctlReady
    /\ listening
    /\ pendingTimer = Null
    /\ AllDelivered(TimerChannels)
    /\ lastCtl.op = "timeout"
    /\ lastOp.op = "applySettings"
    /\ fields.timerSec = "59"
    /\ fields.timerMode = "countdown"
    /\ configuredTimerMode = "countdown"
    /\ configuredDurationMs = 59000

\* the snapshots emitted before message i of the bus
SnapshotsBefore(i) ==
    {j \in DOMAIN bus : j < i /\ bus[j].chan = "settings:changed"}

\* the user changed the duration in countdown mode and then clicked Start:
\* the click's snapshot carries countdown mode and a positive duration that
\* differs from the one of the previous snapshot, also in countdown mode
StartAfterDurationChange ==
    /\ lastCtl.op = "user"
    /\ lastCtl.emitted = <<"settings:changed", "timer:start">>
    /\ bus[Len(bus) - 1].payload.timerMode = "countdown"
    /\ durationOf(bus[Len(bus) - 1].payload) > 0
    /\ SnapshotsBefore(Len(bus) - 1) # {}
    /\ \E j \in SnapshotsBefore(Len(bus) - 1) :
          /\ \A k \in SnapshotsBefore(Len(bus) - 1) : k <= j
          /\ bus[j].payload.timerMode = "countdown"
          /\ durationOf(bus[j].payload)
                # durationOf(bus[Len(bus) - 1].payload)

\* C35: if the user changes the duration to a positive value in countdown
\* mode and then clicks Start, then once the click's snapshot and its
\* timer:start command have both been delivered, in either order, the timer
\* is Running with remainingMs at most the new duration.
C35_StartSurvivesReordering ==
    (/\ StartAfterDurationChange
     /\ listening
     /\ AllDelivered(TimerChannels))
    => /\ Running
       /\ remainingMs <= durationOf(bus[Len(bus) - 1].payload)

(***************************************************************************)
(* The Show / Blank / Flash buttons with the attention listeners of the    *)
(* display surface at the other end of the bus.  The attention listeners   *)
(* are registered when main.ts loads, before DOMContentLoaded.             *)
(***************************************************************************)
\* the listener of attention:setMode or attention:flash runs for message i
DeliverAttention(i) ==
    /\ NextOnChannel(i)
    /\ bus[i].chan \in AttentionChannels
    /\ Cardinality(DOMAIN flashTimeouts) < MaxFlashes
    /\ IF bus[i].chan = "attention:setMode"
       THEN SetA(setMode(A, bus[i].payload))
       ELSE SetA(flash(A, now))
    /\ delivered' = delivered \cup {i}
    /\ UNCHANGED <<displayVars, opsVars, winVars, now, store, ctlVars, step,
                   fmtVars>>

DeliverAttentionAny == \E i \in DOMAIN bus : DeliverAttention(i)

NextAttention ==
    \/ CtlBoot
    \/ ClickFlash
    \/ ClickShow
    \/ ClickBlank
    \/ CooldownTimeoutAny
    \/ FlashTimeoutAny
    \/ FlashClockAdvanceAny
    \/ DeliverAttentionAny

SpecAttention == Init /\ [][NextAttention]_vars

\* C36: whenever no flash cooldown is running, every emitted attention
\* message has been delivered and the display has been put in a mode, the
\* status of the control surface is Live iff the display is in message mode
\* and Blank iff it is in blank mode.
C36_StatusMatchesDisplay ==
    (/\ DOMAIN cooldowns = {}
     /\ AllDelivered(AttentionChannels)
     /\ bodyMode # "")
    => /\ opsState = "live" <=> bodyMode = "mode-message"
       /\ opsState = "blank" <=> bodyMode = "mode-blank"

====
